---- MODULE Spec2Model ----
(***************************************************************************)
(* Model of the realtime call engine of the golf voice agent               *)
(* (voice_gateway/app/engine/realtime_engine.py) together with the         *)
(* provider adapter it drives.  Python's asyncio is cooperative: every     *)
(* action below is the code that runs between two await points of one      *)
(* task, so an action is atomic exactly where the code is.                 *)
(***************************************************************************)
EXTENDS Integers, Sequences, FiniteSets, TLC

(***************************************************************************)
(* Bounds of the model (not program constants).                            *)
(***************************************************************************)
\* inbound Twilio frames one call delivers
MaxFrames == 3
\* inbound frames of a call whose audio path is under study
MaxAudioFrames == 4
\* inbound frames of a call whose playback marks are under study
MaxPlaybackFrames == 3
\* provider events one call delivers
MaxEvents == 2
\* tasks that call shutdown() on the engine
MaxShutdownCallers == 2
\* frames the handler's message loop takes before the call ends
MaxHandlerFrames == 2

(***************************************************************************)
(* Program constants.                                                      *)
(***************************************************************************)
sample_rate_hz == 8000
\* chunk_length_s is 0.05 s; kept as milliseconds to stay in the integers
chunk_length_ms == 50
\* int(sample_rate_hz * chunk_length_s)
buffer_size_bytes == (sample_rate_hz * chunk_length_ms) \div 1000
\* settings.TWILIO_STARTUP_BUFFER_CHUNKS default
TWILIO_STARTUP_BUFFER_CHUNKS == 3

NoneVal == "None"

\* str(n) for a non-negative int: its decimal digits
Digits == << "0","1","2","3","4","5","6","7","8","9" >>

RECURSIVE str(_)
str(n) ==
    IF n < 10 THEN << Digits[n + 1] >>
    ELSE str(n \div 10) \o << Digits[(n % 10) + 1] >>

(***************************************************************************)
(* Bytes and base64, as python's base64 module computes them.  A str is a  *)
(* sequence of one-character strings, bytes a sequence of 0..255.          *)
(***************************************************************************)
B64Alphabet ==
    << "A","B","C","D","E","F","G","H","I","J","K","L","M","N","O","P",
       "Q","R","S","T","U","V","W","X","Y","Z","a","b","c","d","e","f",
       "g","h","i","j","k","l","m","n","o","p","q","r","s","t","u","v",
       "w","x","y","z","0","1","2","3","4","5","6","7","8","9","+","/" >>

B64Chars == { B64Alphabet[i] : i \in 1..64 }

B64Index(c) == (CHOOSE i \in 1..64 : B64Alphabet[i] = c) - 1

\* binascii.a2b_base64(strict_mode=True): length a multiple of four, only
\* alphabet characters, "=" only as the last one or two characters.
B64Valid(s) ==
    /\ Len(s) % 4 = 0
    /\ \A i \in 1..Len(s) :
          \/ s[i] \in B64Chars
          \/ /\ s[i] = "="
             /\ i >= Len(s) - 1
             /\ i > 2
             /\ (i = Len(s) - 1 => s[Len(s)] = "=")

\* the 24-bit group number q of s ("=" counts as zero bits)
B64Group(s, q) ==
    LET v(k) == IF s[4 * (q - 1) + k] = "=" THEN 0
                ELSE B64Index(s[4 * (q - 1) + k])
    IN  v(1) * 262144 + v(2) * 4096 + v(3) * 64 + v(4)

B64PadCount(s) ==
    IF Len(s) = 0 THEN 0
    ELSE IF s[Len(s) - 1] = "=" THEN 2
    ELSE IF s[Len(s)] = "=" THEN 1
    ELSE 0

\* base64.b64decode(payload, validate=True) for a payload with B64Valid:
\* byte i is one of the three bytes of group (i - 1) \div 3 + 1
b64decode(s) ==
    [ i \in 1..(3 * (Len(s) \div 4) - B64PadCount(s)) |->
        LET n == B64Group(s, ((i - 1) \div 3) + 1)
            k == (i - 1) % 3
        IN  IF k = 0 THEN n \div 65536
            ELSE IF k = 1 THEN (n \div 256) % 256
            ELSE n % 256 ]

\* base64.b64encode(data).decode("utf-8"): character j is one of the four
\* characters of the three-byte group (j - 1) \div 4 + 1
b64encode(b) ==
    [ j \in 1..(4 * ((Len(b) + 2) \div 3)) |->
        LET g     == (j - 1) \div 4
            k     == (j - 1) % 4
            at(m) == IF 3 * g + m <= Len(b) THEN b[3 * g + m] ELSE 0
            n     == at(1) * 65536 + at(2) * 256 + at(3)
            have  == Len(b) - 3 * g
        IN  IF k = 0 THEN B64Alphabet[(n \div 262144) + 1]
            ELSE IF k = 1 THEN B64Alphabet[((n \div 4096) % 64) + 1]
            ELSE IF k = 2 THEN
                IF have < 2 THEN "=" ELSE B64Alphabet[((n \div 64) % 64) + 1]
            ELSE
                IF have < 3 THEN "=" ELSE B64Alphabet[(n % 64) + 1] ]

\* n repetitions of the four-character group q
RepeatQuad(q, n) == [ i \in 1..(4 * n) |-> q[((i - 1) % 4) + 1] ]

(***************************************************************************)
(* Inbound media payloads the model feeds in.                              *)
(***************************************************************************)
\* 400 zero bytes: one frame fills a whole chunk window
Payload400 == RepeatQuad(<< "A","A","A","A" >>, 133) \o << "A","A","=","=" >>
\* 160 bytes of 1: the 20 ms frame Twilio sends
Payload160 == RepeatQuad(<< "A","Q","E","B" >>, 53) \o << "A","Q","=","=" >>
\* 240 bytes of 255
Payload240 == RepeatQuad(<< "/","/","/","/" >>, 80)
\* "%%%notbase64%%%" of the unit test, shortened
PayloadBadChars == << "%","%","%","n" >>
\* alphabet characters only, but not a multiple of four long
PayloadBadPadding == << "A","Q","I" >>
PayloadEmpty == << >>

\* A frame carries the key of its payload text; the text, its validity and
\* its decoding are computed once per key by the operators above.
MediaPayloads == { "p400", "p160", "p240", "bad_chars", "bad_padding", "empty" }

PayloadText ==
    [ k \in MediaPayloads |->
        CASE k = "p400" -> Payload400
          [] k = "p160" -> Payload160
          [] k = "p240" -> Payload240
          [] k = "bad_chars" -> PayloadBadChars
          [] k = "bad_padding" -> PayloadBadPadding
          [] OTHER -> PayloadEmpty ]

\* `not payload`, then whether base64.b64decode(payload, validate=True) raises
PayloadKind ==
    [ k \in MediaPayloads |->
        IF PayloadText[k] = << >> THEN "empty"
        ELSE IF B64Valid(PayloadText[k]) THEN "valid" ELSE "invalid" ]

(***************************************************************************)
(* Caller audio is held run-length packed: the bytes 0,0,0,255 are the     *)
(* runs <<[byte |-> 0, count |-> 3], [byte |-> 255, count |-> 1]>>, with   *)
(* neighbouring runs of different bytes, so that equal byte strings are    *)
(* equal values.                                                           *)
(***************************************************************************)
Pack(raw) ==
    LET starts == { i \in 1..Len(raw) : i = 1 \/ raw[i] # raw[i - 1] }
        nth(k) == CHOOSE i \in starts : Cardinality({ j \in starts : j < i }) = k - 1
        last(k) == IF k = Cardinality(starts) THEN Len(raw) ELSE nth(k + 1) - 1
    IN  [ k \in 1..Cardinality(starts) |->
            [ byte |-> raw[nth(k)], count |-> last(k) - nth(k) + 1 ] ]

\* len(b) of packed bytes
RECURSIVE ByteLen(_)
ByteLen(b) == IF b = << >> THEN 0 ELSE b[1].count + ByteLen(Tail(b))

\* a + b (bytearray.extend) of packed bytes
Cat(a, b) ==
    IF a = << >> THEN b
    ELSE IF b = << >> THEN a
    ELSE IF a[Len(a)].byte = b[1].byte
    THEN SubSeq(a, 1, Len(a) - 1)
            \o << [ byte |-> b[1].byte, count |-> a[Len(a)].count + b[1].count ] >>
            \o Tail(b)
    ELSE a \o b

\* ulaw_bytes for a payload that decodes
DecodedPayload ==
    [ k \in MediaPayloads |->
        IF PayloadKind[k] = "valid" THEN Pack(b64decode(PayloadText[k])) ELSE << >> ]

(***************************************************************************)
(* State.  Engine fields keep the names of RealtimeCallEngine.__init__     *)
(* without the leading underscore.                                         *)
(***************************************************************************)
VARIABLES
    \* RealtimeCallEngine fields
    provider_info,              \* "None" or "Info"
    emit_twilio_message,        \* "None" or the callback of a caller of start()
    provider_event_loop_task,   \* 0 (None) or a task id
    buffer_flush_task,          \* 0 (None) or a task id
    is_shutting_down,
    stop_requested,
    stream_sid,
    call_id,
    logger,                     \* TRUE when a DbLogger exists
    caller_audio_buffer,
    elapsed,                    \* time.time() - last_agent_audio_send_time: "fresh" or "stale"
    startup_buffer_chunks,
    startup_audio_buffer,
    startup_audio_warmed,
    mark_counter,
    twilio_mark_playback_map,
    twilio_inbound_audio_frames,
    twilio_inbound_audio_bytes,
    agent_input_audio_chunks,
    agent_input_audio_bytes,
    agent_output_audio_chunks,
    agent_output_audio_bytes,
    \* OpenAIRealtimeProvider fields and settings
    api_key_set,                \* bool(settings.OPENAI_API_KEY)
    p_session,                  \* "None", "created" or "entered"
    p_backend_client,           \* "None" or "open"
    \* asyncio tasks: state and position of every task
    task_state,                 \* task id -> "unborn", "running", "cancelling", "done", "cancelled"
    task_pc,                    \* task id -> position inside the loop body
    task_local,                 \* task id -> the loop's local variables
    start_pc,                   \* start caller -> position
    shutdown_pc,                \* shutdown caller -> position
    read_pc,                    \* position of the transport read loop
    read_local,                 \* locals of the frame being handled
    \* what the collaborators observed
    frames_read,                \* inbound frames taken so far
    events_taken,               \* provider events taken so far, in order
    returns,                    \* results of handle_twilio_message, in order
    sent_audio,                 \* arguments of provider.send_audio, in order
    played,                     \* arguments of provider.on_output_played, in order
    outbound,                   \* frames handed to the outbound callback, in order
    call_events,                \* event name -> rows written through log_call_event
    provider_calls,             \* counts of the calls made on provider, logger and their resources
    inbound_decoded,            \* every decoded inbound byte, in order
    flushed_windows,            \* every window taken out of the caller buffer
    minted,                     \* mark id -> what was recorded when it was minted
    \* TwilioHandler fields, its websocket, its tasks and the endpoint task
    h_is_shutting_down,
    h_session,                  \* "None" or "session"
    h_backend_client,           \* TRUE when a BackendClient exists
    h_logger,                   \* TRUE when a DbLogger is attached
    h_call_events,              \* event types written through _try_log_call_event
    client_state,               \* websocket.client_state
    h_task,                     \* loop task -> "unborn", "running", "cancelling", "done", "cancelled"
    h_pc,                       \* task -> position
    h_sd,                       \* task -> the await of shutdown() it is suspended in, or "idle"
    h_frames,                   \* frames the message loop has handled
    h_calls,                    \* counts of the close calls shutdown() made
    h_sites,                    \* the call sites that have called shutdown()
    h_received,                 \* texts receive_text() returned, in order
    h_handled,                  \* messages passed to _handle_twilio_message, in order
    \* engine/factory.py: one call of create_call_engine
    f_mode,                     \* the mode argument, "" before the call
    f_result,                   \* what the call returned or raised, "None" before it
    f_engines,                  \* RealtimeCallEngine objects constructed
    \* mcp/backend_server.py: one BackendMCPServer and its tool invocations
    b_call_id,                  \* BackendMCPServer._call_id
    b_logger,                   \* call_id of BackendMCPServer._logger, or "None"
    b_pc,                       \* invocation -> "idle", "dispatch" or "done"
    b_args,                     \* invocation -> the local args of call_tool
    b_in,                       \* invocation -> the tool, the arguments and _call_id as call_tool began
    b_sent,                     \* what BackendClient posted, in order
    \* backend/app/services/reservations.py: the tables and the connections
    r_tx,                       \* connection -> TRUE inside a transaction
    r_pc,                       \* connection -> position of its create() call
    r_local,                    \* connection -> arguments and locals of that call
    r_reservations,             \* rows of reservations; reservation_id is the position
    r_changes,                  \* rows of reservation_changes
    r_results,                  \* what the create() calls returned or raised, in order
    \* observability/logger.py and the engine handlers that write through it
    o_logger,                   \* RealtimeCallEngine._logger: 0 (None) or the DbLogger made by the n-th start frame
    o_lg,                       \* DbLogger -> its fields
    o_calls,                    \* TRUE when the calls table holds the row of the call
    o_sessions,                 \* rows of provider_sessions; provider_session_id is the position
    o_issued,                   \* the logger method called last, with whether ensure_call had returned
    o_pc,                       \* task -> position
    o_local,                    \* task -> locals of the handler and of the logger method it is in
    o_last,                     \* how the logger method that returned last ended
    o_frames,                   \* start frames taken
    o_events,                   \* provider events taken
    o_returns,                  \* start frames whose handling returned True
    o_handled,                  \* provider events handled to the end
    o_items,                    \* rows of conversation_items
    o_tools,                    \* rows of tool_calls
    \* OpenAIRealtimeProvider.close called by an owner of the provider
    c_pc,                       \* position of the close() call in progress
    c_entered,                  \* the state of the provider each close() call found
    \* the backend's booking routes over tee_time_slots and reservations
    s_booked,                   \* slot -> committed players_booked
    s_lock,                     \* slot -> the transaction that holds its row lock, or 0
    s_res,                      \* committed rows of reservations, each with the key of its change
    s_pc,                       \* transaction -> position
    s_tx,                       \* transaction -> its request, locals and uncommitted writes
    s_last,                     \* how the book-tee-time request that ended last ended
    s_done                      \* requests begun

engine_vars ==
    << provider_info, emit_twilio_message, provider_event_loop_task,
       buffer_flush_task, is_shutting_down, stop_requested, stream_sid,
       call_id, logger, startup_buffer_chunks >>

audio_in_vars ==
    << caller_audio_buffer, elapsed, startup_audio_buffer,
       startup_audio_warmed, twilio_inbound_audio_frames,
       twilio_inbound_audio_bytes, agent_input_audio_chunks,
       agent_input_audio_bytes, sent_audio, inbound_decoded, flushed_windows >>

audio_out_vars ==
    << mark_counter, twilio_mark_playback_map, agent_output_audio_chunks,
       agent_output_audio_bytes, played, outbound, minted >>

handler_vars ==
    << h_is_shutting_down, h_session, h_backend_client, h_logger,
       h_call_events, client_state, h_task, h_pc, h_sd, h_frames, h_calls,
       h_sites, h_received, h_handled >>

\* what the engine and its provider never write: the settings and the
\* handler of ws/twilio_handler.py
factory_vars == << f_mode, f_result, f_engines >>

\* the components beside the call path, each with its own specification
bridge_vars == << b_call_id, b_logger, b_pc, b_args, b_in, b_sent >>

store_vars == << r_tx, r_pc, r_local, r_reservations, r_changes, r_results >>

log_vars ==
    << o_logger, o_lg, o_calls, o_sessions, o_issued, o_pc, o_local, o_last,
       o_frames, o_events, o_returns, o_handled, o_items,
       o_tools >>

closer_vars == << c_pc, c_entered >>

inventory_vars == << s_booked, s_lock, s_res, s_pc, s_tx, s_last, s_done >>

service_vars ==
    << factory_vars, bridge_vars, store_vars, log_vars, closer_vars, inventory_vars >>

env_vars == << api_key_set, handler_vars, service_vars >>

provider_vars == << env_vars, p_session, p_backend_client, provider_calls >>

task_vars == << task_state, task_pc, task_local >>

caller_vars == << start_pc, shutdown_pc >>

reader_vars == << read_pc, read_local, frames_read, returns >>

vars ==
    << engine_vars, audio_in_vars, audio_out_vars, provider_vars, task_vars,
       caller_vars, reader_vars, events_taken, call_events >>

(***************************************************************************)
(* Tasks, frames and events.                                               *)
(***************************************************************************)
EventLoopTask == 1
FlushLoopTask == 2
TaskIds == { EventLoopTask, FlushLoopTask }
ShutdownCallers == 1..MaxShutdownCallers

\* the callers of start(): the transport, and one more caller
FirstCaller == 1
SecondCaller == 2
StartCallers == { FirstCaller, SecondCaller }

\* values of settings.TWILIO_STARTUP_BUFFER_CHUNKS the model runs with
StartupChunkChoices == { 0, TWILIO_STARTUP_BUFFER_CHUNKS }

Frame(ev, sid, cid, pl, nm) ==
    [ event |-> ev, streamSid |-> sid, callSid |-> cid, payload |-> pl, name |-> nm ]

StartFrames ==
    { Frame("start", "MZ-1", "CA-1", "empty", << >>),
      Frame("start", "MZ-1", NoneVal, "empty", << >>) }
MediaFrames == { Frame("media", NoneVal, NoneVal, pl, << >>) : pl \in MediaPayloads }
\* mark names Twilio echoes: the first ids a call mints (minted or not when
\* echoed), and no name at all
MarkNames == { str(1), str(2), << >> }
MarkFrames == { Frame("mark", NoneVal, NoneVal, "empty", nm) : nm \in MarkNames }
StopFrame == Frame("stop", NoneVal, NoneVal, "empty", << >>)
OtherFrame == Frame("dtmf", NoneVal, NoneVal, "empty", << >>)

ProviderEventOf(nm, item, idx, audio) ==
    [ event_name |-> nm, item_id |-> item, content_index |-> idx, audio_bytes |-> audio ]

AudioEvents ==
    { ProviderEventOf("audio_output", "item-1", 0, << 0, 1 >>),
      ProviderEventOf("audio_output", "item-2", 1, << 255 >>),
      ProviderEventOf("audio_output", "item-3", 0, << >>) }
OtherEvents ==
    { ProviderEventOf("audio_interrupted", NoneVal, 0, << >>) }
ProviderEvents == AudioEvents \cup OtherEvents

\* base64.b64encode of the audio a provider event can carry
EncodedAudio == [ a \in { e.audio_bytes : e \in AudioEvents } |-> b64encode(a) ]

NoEvent == ProviderEventOf(NoneVal, NoneVal, 0, << >>)
\* what the read loop remembers of a frame: its event, its mark name and
\* the key of its media payload
FrameSummary(f) ==
    [ event |-> f.event, name |-> f.name,
      payload |-> IF f.event = "media" THEN f.payload ELSE NoneVal ]
NoFrame == [ event |-> NoneVal, name |-> << >>, payload |-> NoneVal ]
NoReadLocal == [ frame |-> NoFrame, chunk_len |-> 0 ]
NoTaskLocal == [ event |-> NoEvent, chunk_len |-> 0 ]

EmptyMap == [ k \in {} |-> << >> ]
MapPut(m, k, v) == [ x \in (DOMAIN m) \cup { k } |-> IF x = k THEN v ELSE m[x] ]
MapDel(m, k) == [ x \in (DOMAIN m) \ { k } |-> m[x] ]

\* RealtimeCallEngine.__init__ and OpenAIRealtimeProvider.__init__
\* start frames with a call id, and provider events, handled in a run of the
\* observability model
MaxStarts == 1

MaxSessionEvents == 2

\* close() calls made on one provider
MaxCloses == 3

\* booking requests of a run of the inventory model
MaxRequests == 3

\* SLOT_CAPACITY_PLAYERS, the capacity_players of a seeded slot
capacity_players == 4

Slots == 1..2

Txs == 1..2

NoWrites == [ s \in Slots |-> -1 ]

NoTx ==
    [ kind |-> NoneVal, slot_id |-> 0, players |-> 0, key |-> NoneVal, applied |-> FALSE,
      first |-> 0, reservation |-> 0, target |-> 0, new_players |-> 0, before |-> 0,
      inserted |-> FALSE, written |-> NoWrites ]

NoOutcome ==
    [ key |-> NoneVal, applied |-> FALSE, status |-> NoneVal, reservation |-> 0,
      first |-> 0, before |-> 0, after |-> 0 ]

Init ==
    /\ provider_info = NoneVal
    /\ emit_twilio_message = NoneVal
    /\ provider_event_loop_task = 0
    /\ buffer_flush_task = 0
    /\ is_shutting_down = FALSE
    /\ stop_requested = FALSE
    /\ stream_sid = NoneVal
    /\ call_id = NoneVal
    /\ logger = FALSE
    /\ caller_audio_buffer = << >>
    /\ elapsed = "fresh"
    /\ startup_buffer_chunks \in StartupChunkChoices
    /\ startup_audio_buffer = << >>
    /\ startup_audio_warmed = (startup_buffer_chunks = 0)
    /\ mark_counter = 0
    /\ twilio_mark_playback_map = EmptyMap
    /\ twilio_inbound_audio_frames = 0
    /\ twilio_inbound_audio_bytes = 0
    /\ agent_input_audio_chunks = 0
    /\ agent_input_audio_bytes = 0
    /\ agent_output_audio_chunks = 0
    /\ agent_output_audio_bytes = 0
    /\ api_key_set \in BOOLEAN
    /\ p_session = NoneVal
    /\ p_backend_client = NoneVal
    /\ task_state = [ t \in TaskIds |-> "unborn" ]
    /\ task_pc = [ t \in TaskIds |-> "unborn" ]
    /\ task_local = [ t \in TaskIds |-> NoTaskLocal ]
    /\ start_pc = [ c \in StartCallers |-> "idle" ]
    /\ shutdown_pc = [ c \in ShutdownCallers |-> "idle" ]
    /\ read_pc = "idle"
    /\ read_local = NoReadLocal
    /\ frames_read = 0
    /\ events_taken = << >>
    /\ returns = << >>
    /\ sent_audio = << >>
    /\ played = << >>
    /\ outbound = << >>
    /\ call_events = EmptyMap
    /\ provider_calls = [ start |-> 0, close |-> 0, finalize_call |-> 0,
                          session_open |-> 0, session_close |-> 0,
                          client_open |-> 0, client_close |-> 0,
                          create_task |-> 0 ]
    /\ inbound_decoded = << >>
    /\ flushed_windows = << >>
    /\ minted = EmptyMap
    /\ h_is_shutting_down = FALSE
    /\ h_session = NoneVal
    /\ h_backend_client = FALSE
    /\ h_logger = FALSE
    /\ h_call_events = {}
    /\ client_state = "CONNECTING"
    /\ h_task = [ t \in { "realtime_loop", "message_loop", "buffer_flush" } |-> "unborn" ]
    /\ h_pc = [ realtime_loop |-> "next_event", message_loop |-> "receive_text",
                buffer_flush |-> "sleep", endpoint |-> "begin" ]
    /\ h_sd = [ realtime_loop |-> "idle", message_loop |-> "idle",
                buffer_flush |-> "idle", endpoint |-> "idle" ]
    /\ h_frames = 0
    /\ h_calls = [ session_close |-> 0, finalize_call |-> 0, client_close |-> 0,
                   ws_close |-> 0 ]
    /\ h_sites = {}
    /\ h_received = << >>
    /\ h_handled = << >>
    /\ f_mode = << >>
    /\ f_result = NoneVal
    /\ f_engines = 0
    /\ b_call_id = NoneVal
    /\ b_logger = NoneVal
    /\ b_pc = [ i \in 1..2 |-> "idle" ]
    /\ b_args = [ i \in 1..2 |->
                    [ none |-> TRUE, players |-> "<absent>", call_id |-> "<absent>" ] ]
    /\ b_in = [ i \in 1..2 |->
                  [ tool |-> NoneVal, bound |-> NoneVal,
                    arguments |-> [ none |-> TRUE, players |-> "<absent>", call_id |-> "<absent>" ] ] ]
    /\ b_sent = << >>
    /\ r_tx = [ c \in 1..2 |-> FALSE ]
    /\ r_pc = [ c \in 1..2 |-> "idle" ]
    /\ r_local = [ c \in 1..2 |->
                     [ idempotency_key |-> NoneVal, players |-> 0, reservation_id |-> 0,
                       candidates |-> {}, writes |-> 0 ] ]
    /\ r_reservations = << >>
    /\ r_changes = << >>
    /\ r_results = << >>
    /\ o_logger = 0
    /\ o_lg = [ k \in 1..MaxStarts |-> [ provider_session_id |-> 0, external_session_id |-> NoneVal,
                                 call_ensured |-> FALSE ] ]
    /\ o_calls = FALSE
    /\ o_sessions = << >>
    /\ o_issued = [ method |-> NoneVal, ensured |-> FALSE ]
    /\ o_pc = [ t \in { "frame", "event", "closer" } |-> "idle" ]
    /\ o_local = [ t \in { "frame", "event", "closer" } |->
                     [ logger |-> 0, ext |-> NoneVal, source |-> NoneVal, found |-> 0,
                       event |-> NoneVal, session |-> 0 ] ]
    /\ o_last = [ method |-> NoneVal, failed |-> FALSE, ret |-> 0, known |-> 0 ]
    /\ o_frames = 0
    /\ o_events = 0
    /\ o_returns = 0
    /\ o_handled = 0
    /\ o_items = << >>
    /\ o_tools = << >>
    /\ c_pc = "idle"
    /\ c_entered = << >>
    /\ s_booked = [ s \in Slots |-> 0 ]
    /\ s_lock = [ s \in Slots |-> 0 ]
    /\ s_res = << >>
    /\ s_pc = [ c \in Txs |-> "idle" ]
    /\ s_tx = [ c \in Txs |-> NoTx ]
    /\ s_last = NoOutcome
    /\ s_done = 0

(***************************************************************************)
(* RealtimeCallEngine.start and OpenAIRealtimeProvider.start.              *)
(***************************************************************************)
\* the callback a caller of start() hands over
CallbackOf(c) == IF c = FirstCaller THEN "emit" ELSE "emit2"

\* start() up to its first suspension: the guard, the stored callback and
\* the synchronous head of provider.start()
StartEnter(c) ==
    /\ start_pc[c] = "idle"
    /\ IF provider_event_loop_task # 0
       THEN /\ start_pc' = [ start_pc EXCEPT ![c] = "ignored" ]
            /\ UNCHANGED << emit_twilio_message, provider_vars >>
       ELSE /\ emit_twilio_message' = CallbackOf(c)
            /\ provider_calls' =
                  [ provider_calls EXCEPT
                      !.start = @ + 1,
                      !.client_open = IF api_key_set THEN @ + 1 ELSE @ ]
            /\ IF ~api_key_set
               THEN /\ start_pc' = [ start_pc EXCEPT ![c] = "raised" ]
                    /\ UNCHANGED p_backend_client
               ELSE /\ p_backend_client' = "open"
                    /\ start_pc' = [ start_pc EXCEPT ![c] = "runner_run" ]
            /\ UNCHANGED << env_vars, p_session >>
    /\ UNCHANGED << provider_info, provider_event_loop_task, buffer_flush_task,
                    is_shutting_down, stop_requested, stream_sid, call_id,
                    logger, startup_buffer_chunks, audio_in_vars,
                    audio_out_vars, task_vars, shutdown_pc, reader_vars,
                    events_taken, call_events >>

\* provider.start(): `await runner.run(...)` returns a session or raises
StartRunnerRun(c) ==
    /\ start_pc[c] = "runner_run"
    /\ \E ok \in BOOLEAN :
          IF ok
          THEN /\ p_session' = "created"
               /\ provider_calls' = [ provider_calls EXCEPT !.session_open = @ + 1 ]
               /\ start_pc' = [ start_pc EXCEPT ![c] = "session_enter" ]
          ELSE /\ start_pc' = [ start_pc EXCEPT ![c] = "raised" ]
               /\ UNCHANGED << p_session, provider_calls >>
    /\ UNCHANGED << engine_vars, audio_in_vars, audio_out_vars, env_vars,
                    p_backend_client, task_vars, shutdown_pc,
                    reader_vars, events_taken, call_events >>

\* lines 84-85: two new tasks are created and stored in the task fields.
\* Tasks the fields held before are no longer referenced by the engine;
\* the model follows the pair the fields hold and counts every creation.
CreateLoopTasks ==
    /\ provider_event_loop_task' = EventLoopTask
    /\ buffer_flush_task' = FlushLoopTask
    /\ task_state' = [ t \in TaskIds |-> "running" ]
    /\ task_pc' = [ t \in TaskIds |->
                      IF t = EventLoopTask THEN "next_event" ELSE "loop_head" ]
    /\ task_local' = [ t \in TaskIds |-> NoTaskLocal ]
    /\ provider_calls' = [ provider_calls EXCEPT !.create_task = @ + 2 ]

\* start() after provider.start() returned: both loops are spawned
SpawnLoops(c) ==
    /\ provider_info' = "Info"
    /\ CreateLoopTasks
    /\ start_pc' = [ start_pc EXCEPT ![c] = "done" ]

\* a start() that creates its loop tasks before provider.start() has
\* returned: a failed session.enter() leaves both loops running
StartSessionEnterLoopsFirst(c) ==
    /\ start_pc[c] = "session_enter"
    /\ \E ok \in BOOLEAN :
          IF ok THEN p_session' = "entered" /\ SpawnLoops(c)
          ELSE /\ start_pc' = [ start_pc EXCEPT ![c] = "raised" ]
               /\ CreateLoopTasks
               /\ UNCHANGED << p_session, provider_info >>
    /\ UNCHANGED << emit_twilio_message, is_shutting_down, stop_requested,
                    stream_sid, call_id, logger, startup_buffer_chunks,
                    audio_in_vars, audio_out_vars, env_vars,
                    p_backend_client, shutdown_pc,
                    reader_vars, events_taken, call_events >>

\* provider.start(): `await self._session.enter()` returns or raises; on
\* return the engine stores the session info and spawns its loops
StartSessionEnter(c) ==
    /\ start_pc[c] = "session_enter"
    /\ \E ok \in BOOLEAN :
          IF ok THEN p_session' = "entered" /\ SpawnLoops(c)
          ELSE /\ start_pc' = [ start_pc EXCEPT ![c] = "raised" ]
               /\ UNCHANGED << p_session, provider_info, provider_event_loop_task,
                               buffer_flush_task, task_vars, provider_calls >>
    /\ UNCHANGED << emit_twilio_message, is_shutting_down, stop_requested,
                    stream_sid, call_id, logger, startup_buffer_chunks,
                    audio_in_vars, audio_out_vars, env_vars,
                    p_backend_client, shutdown_pc,
                    reader_vars, events_taken, call_events >>

(***************************************************************************)
(* Caller audio: _flush_caller_audio_buffer and the logging helpers.       *)
(***************************************************************************)
\* a warm-up target of one chunk whatever the configured count
warmup_target_one_chunk == buffer_size_bytes

\* line 296
warmup_target_bytes == buffer_size_bytes * startup_buffer_chunks

\* TRUE when a flush of buffer b reaches `await self._provider.send_audio`
FlushSends(b) ==
    /\ ByteLen(b) > 0
    /\ \/ startup_audio_warmed
       \/ ByteLen(Cat(startup_audio_buffer, b)) >= warmup_target_bytes

\* a flush that counts its window only, not the warm-up audio sent with it
WindowOnly(b) == b

\* the audio_chunk such a flush passes to send_audio
FlushChunk(b) ==
    IF startup_audio_warmed THEN b ELSE Cat(startup_audio_buffer, b)

\* a flush that copies the buffer and leaves it as it is
BufferKept(b) == b

\* lines 290-291: audio_chunk = bytes(buffer); buffer.clear()
BufferAfterFlush(b) == << >>

\* a warm-up that sends its buffer and does not clear it
StartupBufferKept(buf) == buf

\* lines 299-300: audio_chunk = bytes(startup buffer); startup buffer.clear()
StartupBufferAfterSend(buf) == << >>

\* _flush_caller_audio_buffer from its first line to the send_audio call,
\* for a caller buffer holding b
FlushCallerAudioBuffer(b) ==
    IF ByteLen(b) = 0
    THEN /\ caller_audio_buffer' = b
         /\ UNCHANGED << elapsed, startup_audio_buffer, startup_audio_warmed,
                         sent_audio, flushed_windows >>
    ELSE /\ caller_audio_buffer' = BufferAfterFlush(b)
         /\ elapsed' = "fresh"
         /\ flushed_windows' = Append(flushed_windows, b)
         /\ IF startup_audio_warmed
            THEN /\ sent_audio' = Append(sent_audio, b)
                 /\ UNCHANGED << startup_audio_buffer, startup_audio_warmed >>
            ELSE IF ByteLen(Cat(startup_audio_buffer, b)) < warmup_target_bytes
            THEN /\ startup_audio_buffer' = Cat(startup_audio_buffer, b)
                 /\ UNCHANGED << startup_audio_warmed, sent_audio >>
            ELSE /\ startup_audio_buffer' = StartupBufferAfterSend(Cat(startup_audio_buffer, b))
                 /\ startup_audio_warmed' = TRUE
                 /\ sent_audio' = Append(sent_audio, Cat(startup_audio_buffer, b))

\* _try_log_call_event: writes only when a logger exists
\* one more row of call_events with this event name
Logged(name) ==
    [ n \in (DOMAIN call_events) \cup { name } |->
        IF n \in DOMAIN call_events
        THEN call_events[n] + (IF n = name THEN 1 ELSE 0)
        ELSE 1 ]

TryLogCallEvent(name) ==
    call_events' = IF logger THEN Logged(name) ELSE call_events

(***************************************************************************)
(* handle_twilio_message: one action per stretch between two awaits.       *)
(***************************************************************************)
\* the value handle_twilio_message hands back for the frame summarised by
\* fs, with the number of on_output_played calls the provider has seen by then
Return(fs, r, was_routed) ==
    returns' = Append(returns, [ frame |-> fs, ret |-> r, routed |-> was_routed,
                                 played_calls |-> Len(played) ])

\* line 102: the frame is turned away without being dispatched
HandleRejected(f) ==
    /\ stop_requested \/ is_shutting_down
    /\ Return(FrameSummary(f), "false", FALSE)
    /\ UNCHANGED << engine_vars, audio_in_vars, audio_out_vars, provider_vars,
                    task_vars, caller_vars, read_pc, read_local, events_taken,
                    call_events >>

\* a start handler that builds the call context whatever the frame carries
CallSidNeverMissing(f) == FALSE

\* line 204: `if not call_sid`
StartFrameLacksCallSid(f) == f.callSid = NoneVal

\* _handle_start_event up to `await self._logger.ensure_call`
HandleStartFrame(f) ==
    /\ ~(stop_requested \/ is_shutting_down)
    /\ f.event = "start"
    /\ stream_sid' = f.streamSid
    /\ IF StartFrameLacksCallSid(f)
       THEN /\ Return(FrameSummary(f), "true", TRUE)
            /\ UNCHANGED << call_id, logger, read_pc, read_local >>
       ELSE IF provider_info = NoneVal
       THEN /\ Return(FrameSummary(f), "raise", TRUE)
            /\ UNCHANGED << call_id, logger, read_pc, read_local >>
       ELSE /\ call_id' = f.callSid
            /\ logger' = TRUE
            /\ read_pc' = "start_ensure_call"
            /\ read_local' = [ frame |-> FrameSummary(f), chunk_len |-> 0 ]
            /\ UNCHANGED returns
    /\ UNCHANGED << provider_info, emit_twilio_message, provider_event_loop_task,
                    buffer_flush_task, is_shutting_down, stop_requested,
                    startup_buffer_chunks, audio_in_vars, audio_out_vars,
                    provider_vars, task_vars, caller_vars, events_taken,
                    call_events >>

\* ensure_call returned: set_call_context, then `await _ensure_provider_session`
StartFrameEnsureSession ==
    /\ read_pc = "start_ensure_call"
    /\ read_pc' = "start_ensure_session"
    /\ UNCHANGED << engine_vars, audio_in_vars, audio_out_vars, provider_vars,
                    task_vars, caller_vars, read_local, frames_read, returns,
                    events_taken, call_events >>

\* the session row is ensured: `await self._logger.log_call_event("start")`
StartFrameLogEvent ==
    /\ read_pc = "start_ensure_session"
    /\ read_pc' = "log_return_true"
    /\ call_events' = Logged("start")
    /\ UNCHANGED << engine_vars, audio_in_vars, audio_out_vars, provider_vars,
                    task_vars, caller_vars, read_local, frames_read, returns,
                    events_taken >>

\* a handler whose last await was a logger write returns True
HandlerReturnAfterLog ==
    /\ read_pc = "log_return_true"
    /\ read_pc' = "idle"
    /\ Return(read_local.frame, "true", TRUE)
    /\ read_local' = NoReadLocal
    /\ UNCHANGED << engine_vars, audio_in_vars, audio_out_vars, provider_vars,
                    task_vars, caller_vars, frames_read, events_taken,
                    call_events >>

\* a handler without the stop branch: the stop frame falls through to
\* lines 126-133, is logged as any other frame and answered True
HandleStopFrameAsOther(f) ==
    /\ ~(stop_requested \/ is_shutting_down)
    /\ f.event = "stop"
    /\ TryLogCallEvent("stop")
    /\ IF logger
       THEN /\ read_pc' = "log_return_true"
            /\ read_local' = [ frame |-> FrameSummary(f), chunk_len |-> 0 ]
            /\ UNCHANGED returns
       ELSE /\ Return(FrameSummary(f), "true", TRUE)
            /\ UNCHANGED << read_pc, read_local >>
    /\ UNCHANGED << engine_vars, audio_in_vars, audio_out_vars, provider_vars,
                    task_vars, caller_vars, events_taken >>

\* the stop branch, lines 115-124, up to the logger write when there is one
HandleStopFrame(f) ==
    /\ ~(stop_requested \/ is_shutting_down)
    /\ f.event = "stop"
    /\ TryLogCallEvent("stop")
    /\ IF logger
       THEN /\ read_pc' = "stop_log"
            /\ read_local' = [ frame |-> FrameSummary(f), chunk_len |-> 0 ]
            /\ UNCHANGED << stop_requested, returns >>
       ELSE /\ stop_requested' = TRUE
            /\ Return(FrameSummary(f), "false", TRUE)
            /\ UNCHANGED << read_pc, read_local >>
    /\ UNCHANGED << provider_info, emit_twilio_message, provider_event_loop_task,
                    buffer_flush_task, is_shutting_down, stream_sid, call_id,
                    logger, startup_buffer_chunks, audio_in_vars,
                    audio_out_vars, provider_vars, task_vars, caller_vars,
                    events_taken >>

\* the stop branch after its logger write: lines 123-124
StopFrameReturn ==
    /\ read_pc = "stop_log"
    /\ read_pc' = "idle"
    /\ stop_requested' = TRUE
    /\ Return(read_local.frame, "false", TRUE)
    /\ read_local' = NoReadLocal
    /\ UNCHANGED << provider_info, emit_twilio_message, provider_event_loop_task,
                    buffer_flush_task, is_shutting_down, stream_sid, call_id,
                    logger, startup_buffer_chunks, audio_in_vars,
                    audio_out_vars, provider_vars, task_vars, caller_vars,
                    frames_read, events_taken, call_events >>

\* any other event name, lines 126-133
HandleOtherFrame(f) ==
    /\ ~(stop_requested \/ is_shutting_down)
    /\ f.event \notin { "start", "media", "mark", "stop" }
    /\ TryLogCallEvent(f.event)
    /\ IF logger
       THEN /\ read_pc' = "log_return_true"
            /\ read_local' = [ frame |-> FrameSummary(f), chunk_len |-> 0 ]
            /\ UNCHANGED returns
       ELSE /\ Return(FrameSummary(f), "true", TRUE)
            /\ UNCHANGED << read_pc, read_local >>
    /\ UNCHANGED << engine_vars, audio_in_vars, audio_out_vars, provider_vars,
                    task_vars, caller_vars, events_taken >>

\* a media handler without the try/except of lines 256-260: the frame is
\* counted, then the decoding error leaves handle_twilio_message
UndecodablePayloadRaises(f) ==
    /\ twilio_inbound_audio_frames' = twilio_inbound_audio_frames + 1
    /\ Return(FrameSummary(f), "raise", TRUE)
    /\ UNCHANGED << caller_audio_buffer, elapsed, startup_audio_buffer,
                    startup_audio_warmed, twilio_inbound_audio_bytes,
                    agent_input_audio_chunks, agent_input_audio_bytes,
                    sent_audio, inbound_decoded, flushed_windows,
                    read_pc, read_local, call_events >>

\* lines 258-260: b64decode raised; the error is logged and the frame dropped
HandleUndecodablePayload(f) ==
    /\ TryLogCallEvent("gateway_error")
    /\ IF logger
       THEN /\ read_pc' = "log_return_true"
            /\ read_local' = [ frame |-> FrameSummary(f), chunk_len |-> 0 ]
            /\ UNCHANGED returns
       ELSE /\ Return(FrameSummary(f), "true", TRUE)
            /\ UNCHANGED << read_pc, read_local >>
    /\ UNCHANGED audio_in_vars

\* a size test that flushes only above the threshold
ExceedsFlushThreshold(b) == ByteLen(b) > buffer_size_bytes

\* line 266: `len(self._caller_audio_buffer) >= self._buffer_size_bytes`
ReachesFlushThreshold(b) == ByteLen(b) >= buffer_size_bytes

\* _handle_media_event up to its first await (the gateway_error write for a
\* payload that does not decode, send_audio when the buffer is flushed)
HandleMediaFrame(f) ==
    /\ ~(stop_requested \/ is_shutting_down)
    /\ f.event = "media"
    /\ IF PayloadKind[f.payload] = "empty"
       THEN /\ Return(FrameSummary(f), "true", TRUE)
            /\ UNCHANGED << audio_in_vars, read_pc, read_local, call_events >>
       ELSE IF PayloadKind[f.payload] = "invalid"
       THEN HandleUndecodablePayload(f)
       ELSE LET ulaw_bytes == DecodedPayload[f.payload]
                b == Cat(caller_audio_buffer, ulaw_bytes)
            IN  /\ twilio_inbound_audio_frames' = twilio_inbound_audio_frames + 1
                /\ twilio_inbound_audio_bytes' = twilio_inbound_audio_bytes + ByteLen(ulaw_bytes)
                /\ inbound_decoded' = Cat(inbound_decoded, ulaw_bytes)
                /\ IF ReachesFlushThreshold(b)
                   THEN /\ FlushCallerAudioBuffer(b)
                        /\ IF FlushSends(b)
                           THEN /\ read_pc' = "send_audio"
                                /\ read_local' = [ frame |-> FrameSummary(f),
                                                   chunk_len |-> ByteLen(FlushChunk(b)) ]
                                /\ UNCHANGED returns
                           ELSE /\ Return(FrameSummary(f), "true", TRUE)
                                /\ UNCHANGED << read_pc, read_local >>
                   ELSE /\ caller_audio_buffer' = b
                        /\ Return(FrameSummary(f), "true", TRUE)
                        /\ UNCHANGED << elapsed, startup_audio_buffer,
                                        startup_audio_warmed, sent_audio,
                                        flushed_windows, read_pc, read_local >>
                /\ UNCHANGED << agent_input_audio_chunks, agent_input_audio_bytes,
                                call_events >>
    /\ UNCHANGED << engine_vars, audio_out_vars, provider_vars, task_vars,
                    caller_vars, events_taken >>

\* `await self._provider.send_audio(audio_chunk)` comes back to the media
\* handler: lines 304-305 and return True, or the exception leaves
\* handle_twilio_message
MediaSendAudioReturn ==
    /\ read_pc = "send_audio"
    /\ read_pc' = "idle"
    /\ read_local' = NoReadLocal
    /\ \E ok \in BOOLEAN :
          IF ok
          THEN /\ agent_input_audio_chunks' = agent_input_audio_chunks + 1
               /\ agent_input_audio_bytes' = agent_input_audio_bytes + read_local.chunk_len
               /\ Return(read_local.frame, "true", TRUE)
          ELSE /\ Return(read_local.frame, "raise", TRUE)
               /\ UNCHANGED << agent_input_audio_chunks, agent_input_audio_bytes >>
    /\ UNCHANGED << engine_vars, caller_audio_buffer, elapsed,
                    startup_audio_buffer, startup_audio_warmed,
                    twilio_inbound_audio_frames, twilio_inbound_audio_bytes,
                    sent_audio, inbound_decoded, flushed_windows,
                    audio_out_vars, provider_vars, task_vars, caller_vars,
                    frames_read, events_taken, call_events >>

\* the arguments on_output_played receives for mark_id
PlayedCall(mark_id) ==
    [ item_id |-> twilio_mark_playback_map[mark_id][1],
      content_index |-> twilio_mark_playback_map[mark_id][2],
      byte_count |-> twilio_mark_playback_map[mark_id][3],
      mark_id |-> mark_id ]

\* a mark handler without the membership test of line 273: the lookup of
\* an id that is not in the table raises KeyError
HandleMarkFrameUnguarded(f) ==
    /\ ~(stop_requested \/ is_shutting_down)
    /\ f.event = "mark"
    /\ IF f.name \notin DOMAIN twilio_mark_playback_map
       THEN /\ Return(FrameSummary(f), "raise", TRUE)
            /\ UNCHANGED << played, read_pc, read_local >>
       ELSE /\ played' = Append(played, PlayedCall(f.name))
            /\ read_pc' = "on_output_played"
            /\ read_local' = [ frame |-> FrameSummary(f), chunk_len |-> 0 ]
            /\ UNCHANGED returns
    /\ UNCHANGED << engine_vars, audio_in_vars, mark_counter,
                    twilio_mark_playback_map, agent_output_audio_chunks,
                    agent_output_audio_bytes, outbound, minted, provider_vars,
                    task_vars, caller_vars, events_taken, call_events >>

\* _handle_mark_event up to `await self._provider.on_output_played`
HandleMarkFrame(f) ==
    /\ ~(stop_requested \/ is_shutting_down)
    /\ f.event = "mark"
    /\ IF f.name \notin DOMAIN twilio_mark_playback_map
       THEN /\ Return(FrameSummary(f), "true", TRUE)
            /\ UNCHANGED << played, read_pc, read_local >>
       ELSE /\ played' = Append(played, PlayedCall(f.name))
            /\ read_pc' = "on_output_played"
            /\ read_local' = [ frame |-> FrameSummary(f), chunk_len |-> 0 ]
            /\ UNCHANGED returns
    /\ UNCHANGED << engine_vars, audio_in_vars, mark_counter,
                    twilio_mark_playback_map, agent_output_audio_chunks,
                    agent_output_audio_bytes, outbound, minted, provider_vars,
                    task_vars, caller_vars, events_taken, call_events >>

\* a mark handler that forgets the `del` of line 283
MarkEntryKept(mark_id) == twilio_mark_playback_map

\* line 283: `del self._twilio_mark_playback_map[mark_id]`
MarkEntryDeleted(mark_id) == MapDel(twilio_mark_playback_map, mark_id)

\* on_output_played returned: line 283 and return True
MarkPlayedReturn ==
    /\ read_pc = "on_output_played"
    /\ read_pc' = "idle"
    /\ twilio_mark_playback_map' = MarkEntryDeleted(read_local.frame.name)
    /\ Return(read_local.frame, "true", TRUE)
    /\ read_local' = NoReadLocal
    /\ UNCHANGED << engine_vars, audio_in_vars, mark_counter,
                    agent_output_audio_chunks, agent_output_audio_bytes,
                    played, outbound, minted, provider_vars, task_vars,
                    caller_vars, frames_read, events_taken, call_events >>

\* handle_twilio_message called with frame f
HandleTwilioMessage(f) ==
    /\ read_pc = "idle"
    /\ frames_read' = frames_read + 1
    /\ \/ HandleRejected(f)
       \/ HandleStartFrame(f)
       \/ HandleMediaFrame(f)
       \/ HandleMarkFrame(f)
       \/ HandleStopFrame(f)
       \/ HandleOtherFrame(f)

(***************************************************************************)
(* The provider event loop: _provider_event_loop, _handle_provider_event   *)
(* and _emit_audio_to_twilio.                                              *)
(***************************************************************************)
OutFrame(ev, sid, pl, nm) ==
    [ event |-> ev, streamSid |-> sid, payload |-> pl, name |-> nm ]

\* a background loop caught an exception: _log_internal_error, then the
\* stop flag; the write suspends the task only when a logger exists
LoopFails(t, error_code) ==
    /\ TryLogCallEvent(error_code)
    /\ IF logger
       THEN /\ task_pc' = [ task_pc EXCEPT ![t] = "log_failure" ]
            /\ UNCHANGED << stop_requested, task_state >>
       ELSE /\ stop_requested' = TRUE
            /\ task_state' = [ task_state EXCEPT ![t] = "done" ]
            /\ task_pc' = [ task_pc EXCEPT ![t] = "failed" ]

\* lines 175 and 189: the failure is logged, the loop sets the stop flag
LoopFailureLogged(t) ==
    /\ task_state[t] = "running"
    /\ task_pc[t] = "log_failure"
    /\ stop_requested' = TRUE
    /\ task_state' = [ task_state EXCEPT ![t] = "done" ]
    /\ task_pc' = [ task_pc EXCEPT ![t] = "failed" ]
    /\ UNCHANGED << provider_info, emit_twilio_message, provider_event_loop_task,
                    buffer_flush_task, is_shutting_down, stream_sid, call_id,
                    logger, startup_buffer_chunks, audio_in_vars,
                    audio_out_vars, provider_vars, task_local, caller_vars,
                    reader_vars, events_taken, call_events >>

\* the payload of the media frame handed to the callback most recently
LastMediaPayload ==
    LET media == SelectSeq(outbound, LAMBDA fr : fr.event = "media")
    IN  IF media = << >> THEN NoneVal ELSE media[Len(media)].payload

\* a counter taken from the size of the mark table instead of line 404
MarkCounterFromTable == Cardinality(DOMAIN twilio_mark_playback_map) + 1

\* line 404: `self._mark_counter += 1`
NextMarkCounter == mark_counter + 1

\* an emitter that records the mark but never sends the mark frame of
\* lines 411-417
MintMarkUnsent(e) ==
    LET mark_id == str(NextMarkCounter)
        entry   == << e.item_id, e.content_index, Len(e.audio_bytes) >>
    IN  /\ mark_counter' = NextMarkCounter
        /\ twilio_mark_playback_map' = MapPut(twilio_mark_playback_map, mark_id, entry)
        /\ minted' = MapPut(minted, mark_id,
                            [ entry |-> entry, audio_bytes |-> e.audio_bytes,
                              last_media |-> LastMediaPayload ])
        /\ task_pc' = [ task_pc EXCEPT ![EventLoopTask] = "next_event" ]
        /\ UNCHANGED outbound

\* lines 404-417: mint the mark, record it, hand the mark frame over
MintMark(e) ==
    LET mark_id == str(NextMarkCounter)
        entry   == << e.item_id, e.content_index, Len(e.audio_bytes) >>
    IN  /\ mark_counter' = NextMarkCounter
        /\ twilio_mark_playback_map' = MapPut(twilio_mark_playback_map, mark_id, entry)
        /\ minted' = MapPut(minted, mark_id,
                            [ entry |-> entry, audio_bytes |-> e.audio_bytes,
                              last_media |-> LastMediaPayload ])
        /\ IF emit_twilio_message = NoneVal
           THEN /\ task_pc' = [ task_pc EXCEPT ![EventLoopTask] = "next_event" ]
                /\ UNCHANGED outbound
           ELSE /\ task_pc' = [ task_pc EXCEPT ![EventLoopTask] = "emit_return" ]
                /\ outbound' = Append(outbound,
                                      OutFrame("mark", stream_sid, << >>, mark_id))

\* a dispatch that sends the clear frame whether or not a stream id is known
ClearWantedAlways(e) == e.event_name = "audio_interrupted"

\* line 333: `event.event_name == "audio_interrupted" and self._stream_sid`
ClearWanted(e) == e.event_name = "audio_interrupted" /\ stream_sid # NoneVal

\* an emitter that only turns away events without audio
AudioDroppedWhenEmpty(e) == e.audio_bytes = << >>

\* line 387: `if not self._stream_sid or not event.audio_bytes: return`
AudioDropped(e) == stream_sid = NoneVal \/ e.audio_bytes = << >>

\* _handle_provider_event from line 329 on, for event e, up to the first
\* call of the outbound callback
DispatchProviderEvent(e) ==
    IF e.event_name = "audio_output"
    THEN IF AudioDropped(e)
         THEN /\ task_pc' = [ task_pc EXCEPT ![EventLoopTask] = "next_event" ]
              /\ UNCHANGED audio_out_vars
         ELSE /\ agent_output_audio_chunks' = agent_output_audio_chunks + 1
              /\ agent_output_audio_bytes' = agent_output_audio_bytes + Len(e.audio_bytes)
              /\ IF emit_twilio_message = NoneVal
                 THEN /\ MintMark(e)
                      /\ UNCHANGED played
                 ELSE /\ outbound' = Append(outbound,
                              OutFrame("media", stream_sid, EncodedAudio[e.audio_bytes], << >>))
                      /\ task_pc' = [ task_pc EXCEPT ![EventLoopTask] = "emit_media" ]
                      /\ UNCHANGED << mark_counter, twilio_mark_playback_map,
                                      played, minted >>
    ELSE IF ClearWanted(e) /\ emit_twilio_message # NoneVal
    THEN /\ outbound' = Append(outbound, OutFrame("clear", stream_sid, << >>, << >>))
         /\ task_pc' = [ task_pc EXCEPT ![EventLoopTask] = "emit_return" ]
         /\ UNCHANGED << mark_counter, twilio_mark_playback_map,
                         agent_output_audio_chunks, agent_output_audio_bytes,
                         played, minted >>
    ELSE /\ task_pc' = [ task_pc EXCEPT ![EventLoopTask] = "next_event" ]
         /\ UNCHANGED audio_out_vars

\* a handler that dispatches every event without awaiting the logger
SessionEventSkipped(e) == FALSE

\* line 313: `if self._logger and event.event_name != "audio_output"`
SessionEventLogged(e) == logger /\ e.event_name # "audio_output"

\* the provider yields event e: lines 309-327, and the dispatch when no
\* session-event write suspends the loop first
ProviderEventArrives(e) ==
    /\ task_state[EventLoopTask] = "running"
    /\ task_pc[EventLoopTask] = "next_event"
    /\ events_taken' = Append(events_taken,
                              [ event |-> e, stream_known |-> stream_sid # NoneVal ])
    /\ task_local' = [ task_local EXCEPT ![EventLoopTask].event = e ]
    /\ IF SessionEventLogged(e)
       THEN /\ task_pc' = [ task_pc EXCEPT ![EventLoopTask] = "log_session_event" ]
            /\ UNCHANGED audio_out_vars
       ELSE DispatchProviderEvent(e)
    /\ UNCHANGED << engine_vars, audio_in_vars, provider_vars, task_state,
                    caller_vars, reader_vars, call_events >>

\* log_session_event returned: the dispatch of lines 329-383
ProviderEventLogged ==
    /\ task_state[EventLoopTask] = "running"
    /\ task_pc[EventLoopTask] = "log_session_event"
    /\ DispatchProviderEvent(task_local[EventLoopTask].event)
    /\ UNCHANGED << engine_vars, audio_in_vars, provider_vars, task_state,
                    task_local, caller_vars, reader_vars, events_taken,
                    call_events >>

\* the outbound callback returned from the media frame (line 396): the mark
\* is minted and emitted, or the callback's exception ends the loop
MediaFrameEmitted ==
    /\ task_state[EventLoopTask] = "running"
    /\ task_pc[EventLoopTask] = "emit_media"
    /\ \E ok \in BOOLEAN :
          IF ok
          THEN /\ MintMark(task_local[EventLoopTask].event)
               /\ UNCHANGED << stop_requested, task_state, call_events >>
          ELSE /\ LoopFails(EventLoopTask, "provider_event_loop_failed")
               /\ UNCHANGED << mark_counter, twilio_mark_playback_map,
                               outbound, minted >>
    /\ UNCHANGED << provider_info, emit_twilio_message, provider_event_loop_task,
                    buffer_flush_task, is_shutting_down, stream_sid, call_id,
                    logger, startup_buffer_chunks, audio_in_vars,
                    agent_output_audio_chunks, agent_output_audio_bytes,
                    played, provider_vars, task_local, caller_vars,
                    reader_vars, events_taken >>

\* the outbound callback returned from a mark or clear frame
FrameEmitted ==
    /\ task_state[EventLoopTask] = "running"
    /\ task_pc[EventLoopTask] = "emit_return"
    /\ \E ok \in BOOLEAN :
          IF ok
          THEN /\ task_pc' = [ task_pc EXCEPT ![EventLoopTask] = "next_event" ]
               /\ UNCHANGED << stop_requested, task_state, call_events >>
          ELSE LoopFails(EventLoopTask, "provider_event_loop_failed")
    /\ UNCHANGED << provider_info, emit_twilio_message, provider_event_loop_task,
                    buffer_flush_task, is_shutting_down, stream_sid, call_id,
                    logger, startup_buffer_chunks, audio_in_vars,
                    audio_out_vars, provider_vars, task_local, caller_vars,
                    reader_vars, events_taken >>

\* provider.events() ends (the backend closed the session) or raises
ProviderStreamEnds ==
    /\ task_state[EventLoopTask] = "running"
    /\ task_pc[EventLoopTask] = "next_event"
    /\ \E ok \in BOOLEAN :
          IF ok
          THEN /\ task_state' = [ task_state EXCEPT ![EventLoopTask] = "done" ]
               /\ task_pc' = [ task_pc EXCEPT ![EventLoopTask] = "returned" ]
               /\ UNCHANGED << stop_requested, call_events >>
          ELSE LoopFails(EventLoopTask, "provider_event_loop_failed")
    /\ UNCHANGED << provider_info, emit_twilio_message, provider_event_loop_task,
                    buffer_flush_task, is_shutting_down, stream_sid, call_id,
                    logger, startup_buffer_chunks, audio_in_vars,
                    audio_out_vars, provider_vars, task_local, caller_vars,
                    reader_vars, events_taken >>

(***************************************************************************)
(* The stale-buffer flush loop: _buffer_flush_loop.                        *)
(***************************************************************************)
\* wall-clock time passes: more than stale_seconds (two chunk lengths) have
\* now gone by since last_agent_audio_send_time
TimePasses ==
    /\ elapsed = "fresh"
    /\ elapsed' = "stale"
    /\ UNCHANGED << engine_vars, caller_audio_buffer, startup_audio_buffer,
                    startup_audio_warmed, twilio_inbound_audio_frames,
                    twilio_inbound_audio_bytes, agent_input_audio_chunks,
                    agent_input_audio_bytes, sent_audio, inbound_decoded,
                    flushed_windows, audio_out_vars, provider_vars, task_vars,
                    caller_vars, reader_vars, events_taken, call_events >>

\* a staleness test that never finds the buffer stale
should_flush_never == FALSE

\* lines 191-196
should_flush_caller_audio_buffer ==
    /\ caller_audio_buffer # << >>
    /\ elapsed = "stale"

\* the loop re-tests `while not self._is_shutting_down` and sleeps again
FlushLoopAgain ==
    /\ task_pc' = [ task_pc EXCEPT ![FlushLoopTask] =
                      IF is_shutting_down THEN "returned" ELSE "sleep" ]
    /\ task_state' = [ task_state EXCEPT ![FlushLoopTask] =
                      IF is_shutting_down THEN "done" ELSE "running" ]

\* the task starts running: the first test of the loop condition
FlushLoopStarts ==
    /\ task_state[FlushLoopTask] = "running"
    /\ task_pc[FlushLoopTask] = "loop_head"
    /\ FlushLoopAgain
    /\ UNCHANGED << engine_vars, audio_in_vars, audio_out_vars, provider_vars,
                    task_local, caller_vars, reader_vars, events_taken,
                    call_events >>

\* asyncio.sleep returned: lines 182-183 up to the send_audio call
FlushLoopWakes ==
    /\ task_state[FlushLoopTask] = "running"
    /\ task_pc[FlushLoopTask] = "sleep"
    /\ IF should_flush_caller_audio_buffer
       THEN /\ FlushCallerAudioBuffer(caller_audio_buffer)
            /\ IF FlushSends(caller_audio_buffer)
               THEN /\ task_pc' = [ task_pc EXCEPT ![FlushLoopTask] = "send_audio" ]
                    /\ task_local' = [ task_local EXCEPT ![FlushLoopTask].chunk_len =
                                         ByteLen(FlushChunk(caller_audio_buffer)) ]
                    /\ UNCHANGED task_state
               ELSE /\ FlushLoopAgain
                    /\ UNCHANGED task_local
       ELSE /\ FlushLoopAgain
            /\ UNCHANGED << caller_audio_buffer, elapsed, startup_audio_buffer,
                            startup_audio_warmed, sent_audio, flushed_windows,
                            task_local >>
    /\ UNCHANGED << engine_vars, twilio_inbound_audio_frames,
                    twilio_inbound_audio_bytes, agent_input_audio_chunks,
                    agent_input_audio_bytes, inbound_decoded, audio_out_vars,
                    provider_vars, caller_vars, reader_vars, events_taken,
                    call_events >>

\* send_audio comes back to the flush loop: lines 304-305, or the loop fails
FlushLoopSendAudioReturn ==
    /\ task_state[FlushLoopTask] = "running"
    /\ task_pc[FlushLoopTask] = "send_audio"
    /\ \E ok \in BOOLEAN :
          IF ok
          THEN /\ agent_input_audio_chunks' = agent_input_audio_chunks + 1
               /\ agent_input_audio_bytes' =
                      agent_input_audio_bytes + task_local[FlushLoopTask].chunk_len
               /\ FlushLoopAgain
               /\ UNCHANGED << stop_requested, call_events >>
          ELSE /\ LoopFails(FlushLoopTask, "audio_buffer_flush_loop_failed")
               /\ UNCHANGED << agent_input_audio_chunks, agent_input_audio_bytes >>
    /\ UNCHANGED << provider_info, emit_twilio_message, provider_event_loop_task,
                    buffer_flush_task, is_shutting_down, stream_sid, call_id,
                    logger, startup_buffer_chunks, caller_audio_buffer, elapsed,
                    startup_audio_buffer, startup_audio_warmed,
                    twilio_inbound_audio_frames, twilio_inbound_audio_bytes,
                    sent_audio, inbound_decoded, flushed_windows,
                    audio_out_vars, provider_vars, task_local, caller_vars,
                    reader_vars, events_taken >>

(***************************************************************************)
(* RealtimeCallEngine.shutdown, _cancel_task and OpenAIRealtimeProvider    *)
(* .close.                                                                 *)
(***************************************************************************)
\* lines 159-160, task.cancel(): a task that is not done is asked to end; it
\* is suspended at an await, so no more of its code runs before
\* CancelledError reaches it
CancelledStates(task) ==
    [ t \in TaskIds |->
        IF t = task /\ task_state[t] = "running" THEN "cancelling" ELSE task_state[t] ]

\* CancelledError reaches the loop at its await; lines 170-171 and 184-185
\* raise it again and the task ends
TaskUnwinds(t) ==
    /\ task_state[t] = "cancelling"
    /\ task_state' = [ task_state EXCEPT ![t] = "cancelled" ]
    /\ UNCHANGED << engine_vars, audio_in_vars, audio_out_vars, provider_vars,
                    task_pc, task_local, caller_vars, reader_vars, events_taken,
                    call_events >>

\* a _cancel_task that asks the task to end and does not wait for it
NotAwaited(task) == TRUE

\* lines 161-163, `await task`: the caller goes on once the task has ended
Awaited(task) ==
    IF task = 0 THEN TRUE ELSE task_state[task] \in { "done", "cancelled" }

\* a shutdown() that never takes the early return of line 137
ShutdownGuardMissing == FALSE

\* line 137: `if self._is_shutting_down: return`
ShutdownAlreadyBegun == is_shutting_down

\* lines 137-142: the idempotence guard, the two flags, and the cancel of
\* the provider event loop
ShutdownEnter(c) ==
    /\ shutdown_pc[c] = "idle"
    /\ IF ShutdownAlreadyBegun
       THEN /\ shutdown_pc' = [ shutdown_pc EXCEPT ![c] = "returned" ]
            /\ UNCHANGED << is_shutting_down, stop_requested, task_state >>
       ELSE /\ is_shutting_down' = TRUE
            /\ stop_requested' = TRUE
            /\ task_state' = CancelledStates(provider_event_loop_task)
            /\ shutdown_pc' = [ shutdown_pc EXCEPT ![c] = "cancel_flush" ]
    /\ UNCHANGED << provider_info, emit_twilio_message, provider_event_loop_task,
                    buffer_flush_task, stream_sid, call_id, logger,
                    startup_buffer_chunks, audio_in_vars, audio_out_vars,
                    provider_vars, task_pc, task_local, start_pc, reader_vars,
                    events_taken, call_events >>

\* line 143: the event loop has ended; the flush loop is cancelled
ShutdownCancelFlush(c) ==
    /\ shutdown_pc[c] = "cancel_flush"
    /\ Awaited(provider_event_loop_task)
    /\ task_state' = CancelledStates(buffer_flush_task)
    /\ shutdown_pc' = [ shutdown_pc EXCEPT ![c] = "close" ]
    /\ UNCHANGED << engine_vars, audio_in_vars, audio_out_vars, provider_vars,
                    task_pc, task_local, start_pc, reader_vars, events_taken,
                    call_events >>

\* OpenAIRealtimeProvider.close: what exists is closed, the fields are reset
ProviderClose ==
    /\ provider_calls' =
          [ provider_calls EXCEPT
              !.close = @ + 1,
              !.session_close = IF p_session # NoneVal THEN @ + 1 ELSE @,
              !.client_close = IF p_backend_client # NoneVal THEN @ + 1 ELSE @ ]
    /\ p_session' = NoneVal
    /\ p_backend_client' = NoneVal

\* lines 145-146: both loops have ended; `await self._provider.close()`
ShutdownClose(c) ==
    /\ shutdown_pc[c] = "close"
    /\ Awaited(buffer_flush_task)
    /\ ProviderClose
    /\ shutdown_pc' = [ shutdown_pc EXCEPT ![c] = "finalize" ]
    /\ UNCHANGED << engine_vars, audio_in_vars, audio_out_vars, env_vars,
                    task_vars, start_pc, reader_vars, events_taken, call_events >>

\* lines 148-151: the summary, then finalize_call when a logger exists
ShutdownFinalize(c) ==
    /\ shutdown_pc[c] = "finalize"
    /\ provider_calls' =
          [ provider_calls EXCEPT !.finalize_call = IF logger THEN @ + 1 ELSE @ ]
    /\ shutdown_pc' = [ shutdown_pc EXCEPT ![c] = "clear" ]
    /\ UNCHANGED << engine_vars, audio_in_vars, audio_out_vars, env_vars,
                    p_session, p_backend_client, task_vars, start_pc,
                    reader_vars, events_taken, call_events >>

\* lines 153-155: callback and task fields are dropped
ShutdownClear(c) ==
    /\ shutdown_pc[c] = "clear"
    /\ emit_twilio_message' = NoneVal
    /\ provider_event_loop_task' = 0
    /\ buffer_flush_task' = 0
    /\ shutdown_pc' = [ shutdown_pc EXCEPT ![c] = "completed" ]
    /\ UNCHANGED << provider_info, is_shutting_down, stop_requested, stream_sid,
                    call_id, logger, startup_buffer_chunks, audio_in_vars,
                    audio_out_vars, provider_vars, task_vars, start_pc,
                    reader_vars, events_taken, call_events >>

(***************************************************************************)
(* The callers of the engine.  The transport starts the engine before it   *)
(* reads frames, hands frames over one at a time for as long as            *)
(* handle_twilio_message answers True, and shuts the engine down from      *)
(* wait_until_done and from the endpoint's finally block.                  *)
(***************************************************************************)
ReadLoopContinues ==
    /\ start_pc[FirstCaller] = "done"
    /\ IF returns = << >> THEN TRUE ELSE returns[Len(returns)].ret = "true"

StartSettled == start_pc[FirstCaller] \in { "done", "raised" }

\* Twilio opens a media stream with its start frame
StartFrameFirst(f) == frames_read = 0 => f.event = "start"

\* the frames of a call whose lifecycle is under study: every kind of
\* frame, with one media payload below the flush threshold, so that the
\* stale-buffer loop has audio to forward
InboundFrames ==
    StartFrames \cup { StopFrame, OtherFrame }
        \cup { Frame("mark", NoneVal, NoneVal, "empty", << >>),
               Frame("media", NoneVal, NoneVal, "p160", << >>) }

\* the frames of a call whose playback marks are under study
PlaybackFrames == MarkFrames \cup { Frame("start", "MZ-1", "CA-1", "empty", << >>) }

\* the frames of a call whose inbound audio is under study
AudioFrames == MediaFrames \cup { Frame("start", "MZ-1", "CA-1", "empty", << >>) }

\* the engine of a call whose audio input is not under study runs with the
\* default warm-up
PlaybackInit == Init /\ startup_buffer_chunks = TWILIO_STARTUP_BUFFER_CHUNKS

\* the engine of a call whose lifecycle is under study runs without
\* warm-up, so that the flush loop forwards the first fragment it finds
LifecycleInit == Init /\ startup_buffer_chunks = 0

\* one caller's start(), step by step
StartBy(c) == StartEnter(c) \/ StartRunnerRun(c) \/ StartSessionEnter(c)

\* the transport starts its engine once
Start == StartBy(FirstCaller)

ReadLoop ==
    \/ \E f \in InboundFrames :
          ReadLoopContinues /\ frames_read < MaxFrames /\ HandleTwilioMessage(f)
    \/ StartFrameEnsureSession
    \/ StartFrameLogEvent
    \/ HandlerReturnAfterLog
    \/ StopFrameReturn
    \/ MediaSendAudioReturn

PlaybackReadLoop ==
    \/ \E f \in PlaybackFrames :
          StartFrameFirst(f) /\ ReadLoopContinues /\ frames_read < MaxPlaybackFrames /\ HandleTwilioMessage(f)
    \/ StartFrameEnsureSession
    \/ StartFrameLogEvent
    \/ HandlerReturnAfterLog
    \/ MarkPlayedReturn

AudioReadLoop ==
    \/ \E f \in AudioFrames :
          ReadLoopContinues /\ frames_read < MaxAudioFrames /\ HandleTwilioMessage(f)
    \/ StartFrameEnsureSession
    \/ StartFrameLogEvent
    \/ HandlerReturnAfterLog
    \/ MediaSendAudioReturn

\* the provider's stream yields each of its events once
YieldedOnce(e) == \A i \in 1..Len(events_taken) : events_taken[i].event # e

ProviderEventLoop ==
    \/ \E e \in ProviderEvents :
          YieldedOnce(e) /\ Len(events_taken) < MaxEvents /\ ProviderEventArrives(e)
    \/ ProviderEventLogged
    \/ MediaFrameEmitted
    \/ FrameEmitted
    \/ ProviderStreamEnds
    \/ LoopFailureLogged(EventLoopTask)

\* the event loop of a call whose provider stays silent until its stream
\* ends or breaks
SilentProviderEventLoop ==
    \/ ProviderStreamEnds
    \/ LoopFailureLogged(EventLoopTask)

BufferFlushLoop ==
    \/ FlushLoopStarts
    \/ FlushLoopWakes
    \/ FlushLoopSendAudioReturn
    \/ LoopFailureLogged(FlushLoopTask)
    \/ TimePasses

\* the tasks that call shutdown() are interchangeable: they are numbered in
\* the order of their calls
CallsInOrder(c) == \A d \in ShutdownCallers : d < c => shutdown_pc[d] # "idle"

ShutdownBy(c) ==
    \/ StartSettled /\ CallsInOrder(c) /\ ShutdownEnter(c)
    \/ ShutdownCancelFlush(c)
    \/ ShutdownClose(c)
    \/ ShutdownFinalize(c)
    \/ ShutdownClear(c)

Shutdown == \E c \in ShutdownCallers : ShutdownBy(c)

\* the loops that were asked to end, ending
Cancellation == \E t \in TaskIds : TaskUnwinds(t)

\* the frames of a call whose start frame carries no call id
UnobservedFrames ==
    { Frame("start", "MZ-1", NoneVal, "empty", << >>),
      Frame("media", NoneVal, NoneVal, "p400", << >>) }

UnobservedReadLoop ==
    \/ \E f \in UnobservedFrames :
          StartFrameFirst(f) /\ ReadLoopContinues /\ frames_read < MaxAudioFrames /\ HandleTwilioMessage(f)
    \/ MediaSendAudioReturn

\* the event loop of a call without a logger: no write suspends it
UnobservedEventLoop ==
    \/ \E e \in ProviderEvents :
          YieldedOnce(e) /\ Len(events_taken) < MaxEvents /\ ProviderEventArrives(e)
    \/ MediaFrameEmitted
    \/ FrameEmitted
    \/ ProviderStreamEnds

\* the flush loop of a call whose frames each fill a chunk window: it
\* wakes and finds nothing stale to send
UnobservedFlushLoop == FlushLoopStarts \/ FlushLoopWakes \/ TimePasses

\* the lifecycle of one call: start, frames of every kind, both loops
\* running and failing, shutdown from several tasks
Next ==
    Start \/ ReadLoop \/ SilentProviderEventLoop \/ BufferFlushLoop \/ Shutdown
        \/ Cancellation

Spec == LifecycleInit /\ [][Next]_vars

\* one call seen from its outbound audio: provider events become media and
\* mark frames, marks are echoed back, shutdown may cut in
PlaybackNext ==
    Start \/ PlaybackReadLoop \/ ProviderEventLoop \/ ShutdownBy(1) \/ Cancellation

PlaybackSpec == PlaybackInit /\ [][PlaybackNext]_vars

\* one call seen from its inbound audio: the read loop feeds media frames
\* while the flush loop and the clock run
AudioNext == Start \/ AudioReadLoop \/ BufferFlushLoop

AudioSpec == Init /\ [][AudioNext]_vars

\* the frames of a call that sends fragments shorter than a chunk window
FragmentFrames ==
    { Frame("start", "MZ-1", "CA-1", "empty", << >>),
      Frame("media", NoneVal, NoneVal, "p160", << >>),
      Frame("media", NoneVal, NoneVal, "p240", << >>) }

FragmentReadLoop ==
    \/ \E f \in FragmentFrames :
          StartFrameFirst(f) /\ ReadLoopContinues /\ frames_read < MaxFrames /\ HandleTwilioMessage(f)
    \/ StartFrameEnsureSession
    \/ StartFrameLogEvent
    \/ HandlerReturnAfterLog
    \/ MediaSendAudioReturn

\* an engine whose start() is called by a second caller as well, at any
\* moment: while the first call is suspended, after it returned, during
\* shutdown() or after it
RestartNext ==
    \/ Start
    \/ StartBy(SecondCaller)
    \/ FragmentReadLoop
    \/ SilentProviderEventLoop
    \/ BufferFlushLoop
    \/ ShutdownBy(1)
    \/ Cancellation

RestartSpec == Init /\ [][RestartNext]_vars

\* one call that sends fragments and then falls silent
FragmentNext == Start \/ FragmentReadLoop \/ SilentProviderEventLoop \/ BufferFlushLoop

\* the event loop runs every task that is ready, asyncio.sleep returns,
\* awaited calls come back and the clock advances
FragmentFairness ==
    /\ WF_vars(FlushLoopStarts)
    /\ WF_vars(FlushLoopWakes)
    /\ WF_vars(FlushLoopSendAudioReturn)
    /\ WF_vars(LoopFailureLogged(FlushLoopTask))
    /\ WF_vars(TimePasses)

FragmentSpec == Init /\ [][FragmentNext]_vars /\ FragmentFairness

\* one call whose start frame carries a stream id and no call id, with
\* audio in both directions
UnobservedNext ==
    Start \/ UnobservedReadLoop \/ UnobservedEventLoop \/ UnobservedFlushLoop

UnobservedSpec == Init /\ [][UnobservedNext]_vars

(***************************************************************************)
(* Properties of the engine.                                               *)
(***************************************************************************)
\* a step in which handle_twilio_message is entered with one more frame
TakesFrame == frames_read' = frames_read + 1

\* the frame such a step took
TakenFrame ==
    IF read_pc' = "idle" THEN returns'[Len(returns')].frame ELSE read_local'.frame

\* the guard of line 102 lets a frame through to its handler
Dispatched == ~(stop_requested \/ is_shutting_down)

\* C1: however many tasks call shutdown(), one after another or while an
\* earlier call is still running, provider.close() is invoked once and
\* logger.finalize_call() is invoked once when a logger exists: never
\* twice, and once by the time the call that does the work has gone past
\* them and by the time every call has returned.
ShutdownClosesOnce ==
    /\ provider_calls.close <= 1
    /\ provider_calls.finalize_call <= 1
    /\ \A c \in ShutdownCallers :
          /\ shutdown_pc[c] \in { "finalize", "clear", "completed" } =>
                provider_calls.close = 1
          /\ shutdown_pc[c] \in { "clear", "completed" } =>
                provider_calls.finalize_call = IF logger THEN 1 ELSE 0
    /\ (\A c \in ShutdownCallers : shutdown_pc[c] \in { "completed", "returned" }) =>
          /\ provider_calls.close = 1
          /\ provider_calls.finalize_call = IF logger THEN 1 ELSE 0

\* two shutdown() calls on an engine with a logger have both returned
ShutdownCalledTwice ==
    /\ logger
    /\ \E c, d \in ShutdownCallers :
          shutdown_pc[c] = "completed" /\ shutdown_pc[d] = "returned"
    /\ provider_calls.close = 1
    /\ provider_calls.finalize_call = 1

\* the arguments recorded for mark_id when its frame pair was emitted
RecordedPlayedCall(mark_id) ==
    [ item_id |-> minted[mark_id].entry[1],
      content_index |-> minted[mark_id].entry[2],
      byte_count |-> minted[mark_id].entry[3],
      mark_id |-> mark_id ]

\* C2: handling a mark frame that echoes an id of the mark table invokes
\* on_output_played once, with the item id, content index and byte count
\* recorded when the pair was emitted; the entry is gone when the handler
\* returns, and no id is ever passed to on_output_played twice.
MarkEchoPlayedOnce ==
    [][ /\ ( /\ TakesFrame
             /\ Dispatched
             /\ TakenFrame.event = "mark"
             /\ TakenFrame.name \in DOMAIN twilio_mark_playback_map )
           => played' = Append(played, RecordedPlayedCall(TakenFrame.name))
        /\ (read_pc = "on_output_played" /\ read_pc' = "idle")
           => /\ read_local.frame.name \notin DOMAIN twilio_mark_playback_map'
              /\ returns'[Len(returns')].ret = "true"
        /\ \A i, j \in 1..Len(played') :
              played'[i].mark_id = played'[j].mark_id => i = j
      ]_vars

\* mark 1 was echoed twice: the first echo was played, the second was not
MarkEchoedTwice ==
    /\ Len(returns) = 3
    /\ \A i \in { 2, 3 } :
          /\ returns[i].frame.event = "mark"
          /\ returns[i].frame.name = str(1)
          /\ returns[i].routed
          /\ returns[i].ret = "true"
          /\ returns[i].played_calls = 1
    /\ returns[1].played_calls = 0
    /\ played = << RecordedPlayedCall(str(1)) >>
    /\ str(1) \notin DOMAIN twilio_mark_playback_map

\* C3: handling a mark frame whose id is not in the mark table (never
\* minted, or no name at all) invokes nothing on the provider, raises
\* nothing, leaves the mark table and every other engine field as they
\* were, and returns True.
UnknownMarkIgnored ==
    [][ ( /\ TakesFrame
          /\ Dispatched
          /\ TakenFrame.event = "mark"
          /\ TakenFrame.name \notin DOMAIN twilio_mark_playback_map )
        => /\ UNCHANGED << engine_vars, audio_in_vars, audio_out_vars,
                           provider_vars, task_vars, call_events >>
           /\ read_pc' = "idle"
           /\ returns'[Len(returns')].ret = "true"
      ]_vars

\* a mark without a name and a mark with an id that was never minted have
\* both been handled while another mark was waiting in the table
UnknownMarksHandled ==
    /\ Len(returns) = 3
    /\ returns[2].frame.event = "mark" /\ returns[2].frame.name = << >>
    /\ returns[3].frame.event = "mark" /\ returns[3].frame.name = str(2)
    /\ returns[2].routed /\ returns[3].routed
    /\ returns[2].ret = "true" /\ returns[3].ret = "true"
    /\ str(2) \notin DOMAIN minted
    /\ DOMAIN twilio_mark_playback_map = { str(1) }
    /\ played = << >>

\* C4: once warm-up is over or disabled, the media frame that brings the
\* bytes accumulated in the caller buffer to 400 or more causes exactly
\* one send_audio call, carrying exactly the accumulated bytes, and leaves
\* the caller buffer empty; a frame that stays below 400 causes none.
ThresholdFlushSendsOnce ==
    [][ ( /\ TakesFrame
          /\ Dispatched
          /\ TakenFrame.event = "media"
          /\ PayloadKind[TakenFrame.payload] = "valid"
          /\ startup_audio_warmed )
        => LET accumulated ==
                   Cat(caller_audio_buffer, DecodedPayload[TakenFrame.payload])
           IN  IF ByteLen(accumulated) >= buffer_size_bytes
               THEN /\ sent_audio' = Append(sent_audio, accumulated)
                    /\ caller_audio_buffer' = << >>
               ELSE /\ sent_audio' = sent_audio
                    /\ caller_audio_buffer' = accumulated
      ]_vars

\* with warm-up disabled, a 160-byte and a 240-byte frame together reached
\* 400 bytes and went out as one chunk
ThresholdReachedByTwoFrames ==
    /\ startup_buffer_chunks = 0
    /\ sent_audio = << Cat(DecodedPayload["p160"], DecodedPayload["p240"]) >>
    /\ caller_audio_buffer = << >>
    /\ twilio_inbound_audio_frames = 2

\* the concatenation of a sequence of flushed windows
RECURSIVE CatAll(_)
CatAll(ws) == IF ws = << >> THEN << >> ELSE Cat(ws[1], CatAll(Tail(ws)))

\* the first n windows taken out of the caller buffer, concatenated
FirstWindows(n) == CatAll(SubSeq(flushed_windows, 1, n))

InvalidPayloadDropped ==
    [][ /\ ( /\ TakesFrame
             /\ Dispatched
             /\ TakenFrame.event = "media"
             /\ PayloadKind[TakenFrame.payload] = "invalid" )
           => /\ UNCHANGED << engine_vars, audio_in_vars, audio_out_vars >>
              /\ read_pc' \in { "idle", "log_return_true" }
              /\ read_pc' = "idle" => returns'[Len(returns')].ret = "true"
        /\ (read_pc = "log_return_true" /\ read_pc' = "idle")
           => /\ returns'[Len(returns')].ret = "true"
              /\ returns'[Len(returns')].frame = read_local.frame
      ]_vars

\* with warm-up disabled, a frame that does not decode was answered True
\* and the 400-byte frame after it was forwarded whole
ValidFrameAfterInvalid ==
    /\ startup_buffer_chunks = 0
    /\ Len(returns) = 2
    /\ returns[1].frame.event = "media"
    /\ PayloadKind[returns[1].frame.payload] = "invalid"
    /\ returns[1].routed /\ returns[1].ret = "true"
    /\ returns[2].frame.payload = "p400" /\ returns[2].ret = "true"
    /\ sent_audio = << DecodedPayload["p400"] >>
    /\ twilio_inbound_audio_frames = 1

\* C7: handle_twilio_message answers False for the stop frame, every frame
\* handled before the stop frame was answered True, and no frame other
\* than stop that reaches its handler is answered False, also while the
\* provider event loop or the flush loop runs or fails.
StopAnswersFalse ==
    \A i \in 1..Len(returns) :
        /\ returns[i].frame.event = "stop" =>
              /\ returns[i].ret = "false"
              /\ \A j \in 1..(i - 1) : returns[j].ret = "true"
        /\ (returns[i].routed /\ returns[i].frame.event # "stop") =>
              returns[i].ret # "false"

\* a start and a media frame were answered True, the stop frame reached
\* its handler and was answered False, and a background loop has failed
StopAfterTwoFrames ==
    /\ Len(returns) = 3
    /\ returns[1].frame.event = "start" /\ returns[1].ret = "true"
    /\ returns[2].frame.event = "media" /\ returns[2].ret = "true"
    /\ returns[3].frame.event = "stop" /\ returns[3].ret = "false"
    /\ returns[3].routed
    /\ \E t \in TaskIds : task_pc[t] = "failed"

\* the audio_output events taken so far, in provider order
AudioOutputEvents ==
    SelectSeq(events_taken, LAMBDA r : r.event.event_name = "audio_output")

\* those that carry audio and were handled while a stream id was known
EmittableAudioEvents ==
    SelectSeq(events_taken,
              LAMBDA r : /\ r.event.event_name = "audio_output"
                         /\ r.stream_known
                         /\ r.event.audio_bytes # << >>)

MediaFramesOut == SelectSeq(outbound, LAMBDA fr : fr.event = "media")
MarkFramesOut == SelectSeq(outbound, LAMBDA fr : fr.event = "mark")

\* the event loop is between two events: every event taken was handled to
\* the end of _handle_provider_event
EventLoopAtRest == task_pc[EventLoopTask] \in { "next_event", "returned" }

\* the i-th media frame carries the i-th event's audio and the i-th mark
\* frame the i-th id; a mark frame follows its media frame directly
FramesFollow(evs) ==
    /\ Len(MediaFramesOut) = Len(evs)
    /\ \A i \in 1..Len(evs) :
          MediaFramesOut[i].payload = EncodedAudio[evs[i].event.audio_bytes]
    /\ \A i \in 1..Len(MarkFramesOut) : MarkFramesOut[i].name = str(i)
    /\ \A p \in 1..Len(outbound) :
          /\ outbound[p].event = "mark" => (p > 1 /\ outbound[p - 1].event = "media")
          /\ (outbound[p].event = "media" /\ p < Len(outbound)) =>
                outbound[p + 1].event = "mark"

\* C8 as stated: every audio_output event the engine has handled produced
\* one media frame directly followed by one mark frame, in provider order.
EveryAudioEventEmitsPair ==
    EventLoopAtRest =>
        /\ FramesFollow(AudioOutputEvents)
        /\ Len(MarkFramesOut) = Len(AudioOutputEvents)

\* C8: every audio_output event that carries audio bytes and is handled
\* while a stream id is known produces one media frame, directly followed
\* by one mark frame once its handling has run to the end, in provider
\* order and without coalescing; only the pair of the event in progress
\* can lack its mark frame.
EmittableAudioEventEmitsPair ==
    /\ FramesFollow(EmittableAudioEvents)
    /\ Len(MarkFramesOut) <= Len(MediaFramesOut)
    /\ Len(MarkFramesOut) >= Len(MediaFramesOut) - 1
    /\ EventLoopAtRest => Len(MarkFramesOut) = Len(EmittableAudioEvents)

\* two audio events were handled to the end and left two pairs, in order
TwoPairsEmitted ==
    /\ EventLoopAtRest
    /\ Len(EmittableAudioEvents) = 2
    /\ EmittableAudioEvents[1].event.audio_bytes = << 0, 1 >>
    /\ EmittableAudioEvents[2].event.audio_bytes = << 255 >>
    /\ Len(outbound) = 4
    /\ outbound[1].event = "media" /\ outbound[1].payload = b64encode(<< 0, 1 >>)
    /\ outbound[2].event = "mark" /\ outbound[2].name = str(1)
    /\ outbound[3].event = "media" /\ outbound[3].payload = b64encode(<< 255 >>)
    /\ outbound[4].event = "mark" /\ outbound[4].name = str(2)

\* C9: every entry of the mark table was created after the media frame
\* for the same audio bytes had been handed to the outbound callback, the
\* mark counter only grows, and an id is given to an entry once: the id of
\* a new entry was never in use before.
MarkCreatedAfterMedia ==
    [][ /\ \A k \in DOMAIN twilio_mark_playback_map' :
              /\ k \in DOMAIN minted'
              /\ twilio_mark_playback_map'[k] = minted'[k].entry
              /\ minted'[k].last_media = EncodedAudio[minted'[k].audio_bytes]
        /\ mark_counter' >= mark_counter
        /\ ( \/ mark_counter' # mark_counter
             \/ minted' # minted
             \/ ~(DOMAIN twilio_mark_playback_map' \subseteq DOMAIN twilio_mark_playback_map) )
           => /\ mark_counter' = mark_counter + 1
              /\ str(mark_counter') \notin DOMAIN minted
              /\ DOMAIN minted' = DOMAIN minted \cup { str(mark_counter') }
              /\ DOMAIN twilio_mark_playback_map' =
                    DOMAIN twilio_mark_playback_map \cup { str(mark_counter') }
      ]_vars

\* two marks were minted, each after its own media frame; the first has
\* been played and removed, the second is still in the table
TwoMarksMinted ==
    /\ mark_counter = 2
    /\ DOMAIN minted = { str(1), str(2) }
    /\ minted[str(1)].last_media = b64encode(<< 0, 1 >>)
    /\ minted[str(2)].last_media = b64encode(<< 255 >>)
    /\ DOMAIN twilio_mark_playback_map = { str(2) }

\* C10: when provider.start() fails, start() raises, neither loop has been
\* spawned and no task is stored, and a shutdown() that runs afterwards
\* leaves nothing behind: the callback is dropped and every session or
\* client the failed start had opened is closed.
StartFailureLeavesNothing ==
    start_pc[FirstCaller] = "raised" =>
        /\ provider_calls.start = 1
        /\ provider_info = NoneVal
        /\ provider_event_loop_task = 0
        /\ buffer_flush_task = 0
        /\ \A t \in TaskIds : task_state[t] = "unborn"
        /\ (\E c \in ShutdownCallers : shutdown_pc[c] = "completed") =>
              /\ emit_twilio_message = NoneVal
              /\ p_session = NoneVal
              /\ p_backend_client = NoneVal
              /\ provider_calls.session_close = provider_calls.session_open
              /\ provider_calls.client_close = provider_calls.client_open

\* session.enter() failed after the client and the session had been
\* created, and a shutdown() has unwound both
FailedStartUnwound ==
    /\ start_pc[FirstCaller] = "raised"
    /\ provider_calls.client_open = 1
    /\ provider_calls.session_open = 1
    /\ \E c \in ShutdownCallers : shutdown_pc[c] = "completed"
    /\ provider_calls.client_close = 1
    /\ provider_calls.session_close = 1

\* a loop task has ended: it returned, failed or was cancelled, or was never
\* created
LoopEnded(t) == task_state[t] \in { "unborn", "done", "cancelled" }

\* C14: during shutdown(), provider.close() is not invoked and the outbound
\* callback is not dropped before both background loops have been cancelled
\* and have ended.
LoopsEndedBeforeRelease ==
    /\ provider_calls.close > 0 => \A t \in TaskIds : LoopEnded(t)
    /\ (\E c \in ShutdownCallers : shutdown_pc[c] \in { "finalize", "clear", "completed" })
          => \A t \in TaskIds : LoopEnded(t)
    /\ (emit_twilio_message = NoneVal /\ start_pc[FirstCaller] # "idle")
          => \A t \in TaskIds : LoopEnded(t)

\* shutdown() ran to its end on an engine whose two loops were running: both
\* were cancelled, then the provider was closed and the callback dropped
RunningLoopsCancelledThenReleased ==
    /\ start_pc[FirstCaller] = "done"
    /\ \E c \in ShutdownCallers : shutdown_pc[c] = "completed"
    /\ \A t \in TaskIds : task_state[t] = "cancelled"
    /\ provider_calls.close = 1
    /\ emit_twilio_message = NoneVal

\* a step in which the event loop reaches line 329 with the event it holds:
\* at once when no session-event write suspends it, else when that write
\* returned
DispatchesEvent ==
    \/ /\ Len(events_taken') = Len(events_taken) + 1
       /\ task_pc'[EventLoopTask] # "log_session_event"
    \/ /\ task_pc[EventLoopTask] = "log_session_event"
       /\ task_pc'[EventLoopTask] # "log_session_event"

ClearFramesOut == SelectSeq(outbound, LAMBDA fr : fr.event = "clear")

\* C17: an audio_interrupted provider event handled while a stream id is
\* known emits exactly one clear frame that carries that stream id, and no
\* media or mark frame; handled while no stream id is known it emits
\* nothing.
InterruptEmitsOneClear ==
    [][ ( /\ DispatchesEvent
          /\ task_local'[EventLoopTask].event.event_name = "audio_interrupted" )
        => /\ outbound' =
                 IF stream_sid # NoneVal
                 THEN Append(outbound, [ event |-> "clear", streamSid |-> stream_sid,
                                         payload |-> << >>, name |-> << >> ])
                 ELSE outbound
           /\ UNCHANGED << mark_counter, twilio_mark_playback_map >>
      ]_vars

\* an interruption handled after an audio event: the pair of the audio
\* event is followed by one clear frame with the stream id of the call
ClearAfterPair ==
    /\ Len(outbound) = 3
    /\ outbound[1].event = "media" /\ outbound[2].event = "mark"
    /\ outbound[3].event = "clear" /\ outbound[3].streamSid = "MZ-1"
    /\ Len(ClearFramesOut) = 1
    /\ task_pc[EventLoopTask] = "next_event"

\* no observability write is in progress or was made
NothingLogged ==
    /\ call_events = EmptyMap
    /\ provider_calls.finalize_call = 0
    /\ read_pc \notin { "start_ensure_call", "start_ensure_session", "log_return_true" }
    /\ \A t \in TaskIds : task_pc[t] \notin { "log_session_event", "log_failure" }

\* C18: after a start frame that carries a stream id and no call id,
\* handle_twilio_message has returned True and the stream id is recorded; no
\* logger and no call context exist and no observability write is made;
\* audio flows both ways all the same: the media frames that follow are
\* buffered and passed to send_audio, and the audio_output events that
\* follow are emitted as media and mark frames.
UnobservedCallStillFlows ==
    /\ \A i \in 1..Len(returns) :
          (returns[i].frame.event = "start" /\ returns[i].routed) =>
              /\ returns[i].ret = "true"
              /\ stream_sid = "MZ-1"
    /\ ~logger /\ call_id = NoneVal
    /\ NothingLogged
    /\ Cat(Cat(CatAll(sent_audio), startup_audio_buffer), caller_audio_buffer)
          = inbound_decoded
    /\ ByteLen(caller_audio_buffer) < buffer_size_bytes
    /\ IF startup_audio_warmed
       THEN startup_audio_buffer = << >>
       ELSE sent_audio = << >> /\ ByteLen(startup_audio_buffer) < warmup_target_bytes
    /\ FramesFollow(EmittableAudioEvents)
    /\ EventLoopAtRest => Len(MarkFramesOut) = Len(EmittableAudioEvents)

\* with the default warm-up and no logger, three media frames after the
\* start frame were sent on as one chunk, and an audio event left its pair
UnobservedAudioBothWays ==
    /\ startup_buffer_chunks = TWILIO_STARTUP_BUFFER_CHUNKS
    /\ Len(returns) = 4 /\ returns[1].frame.event = "start" /\ returns[4].ret = "true"
    /\ stream_sid = "MZ-1" /\ ~logger
    /\ Len(sent_audio) = 1 /\ ByteLen(sent_audio[1]) = 3 * buffer_size_bytes
    /\ agent_input_audio_chunks = 1
    /\ Len(outbound) = 2 /\ outbound[1].event = "media" /\ outbound[2].event = "mark"
    /\ call_events = EmptyMap

\* the engine is started and neither stopped nor shutting down
EngineActive == start_pc[FirstCaller] = "done" /\ ~stop_requested /\ ~is_shutting_down

\* C16: while the engine is active a non-empty caller buffer is not held
\* for ever: when no media frame takes it along, the flush loop flushes it
\* once more than two chunk lengths have passed since the last flush.
StaleBufferFlushed ==
    (caller_audio_buffer # << >> /\ EngineActive)
        ~> (caller_audio_buffer = << >> \/ ~EngineActive)

\* with warm-up disabled, the flush loop sent on a 160-byte fragment that
\* no later frame completed, and the engine is still active
FragmentSentByFlushLoop ==
    /\ startup_buffer_chunks = 0
    /\ EngineActive
    /\ task_state[FlushLoopTask] = "running"
    /\ twilio_inbound_audio_frames = 1
    /\ caller_audio_buffer = << >>
    /\ sent_audio = << DecodedPayload["p160"] >>
    /\ agent_input_audio_chunks = 1
    /\ read_pc = "idle"

\* caller c makes its call of start() in this step
CallsStart(c) == start_pc[c] = "idle" /\ start_pc'[c] # "idle"

\* a call of start() by c that does nothing
StartIgnored(c) ==
    /\ start_pc'[c] = "ignored"
    /\ provider_calls' = provider_calls
    /\ emit_twilio_message' = emit_twilio_message
    /\ provider_event_loop_task' = provider_event_loop_task
    /\ buffer_flush_task' = buffer_flush_task

\* the first call of start() is suspended in provider.start() or has
\* returned normally
FirstStartUnderWay == start_pc[FirstCaller] \in { "runner_run", "session_enter", "done" }

\* C11: a second call of start() on an engine that has not been shut
\* down does nothing, also while the first call is still awaiting
\* provider.start(): provider.start() is not invoked again, the callback
\* is not replaced and no loop task is created.
SecondStartIsNoOp ==
    [][ (CallsStart(SecondCaller) /\ FirstStartUnderWay /\ ~is_shutting_down)
            => StartIgnored(SecondCaller) ]_vars

\* shutdown() has run to its end
ShutdownHasRun == \E c \in ShutdownCallers : shutdown_pc[c] = "completed"

\* C12: once shutdown() has run, no later call of start() invokes
\* provider.start(), stores a callback or creates a loop task.
StartAfterShutdownIsNoOp ==
    [][ \A c \in StartCallers :
            (ShutdownHasRun /\ CallsStart(c)) => StartIgnored(c) ]_vars

(***************************************************************************)
(* TwilioHandler (ws/twilio_handler.py) and the endpoint that owns it      *)
(* (main.py, twilio_stream).  The handler keeps a realtime session, a      *)
(* backend client and three loop tasks of its own.  Its call logger is     *)
(* never attached: DbLogger(call_sid, session_id=...) at line 483 raises   *)
(* TypeError, DbLogger.__init__ (observability/logger.py) taking a call id *)
(* only, and the message loop treats the exception as a failure.           *)
(***************************************************************************)
HandlerTasks == { "realtime_loop", "message_loop", "buffer_flush" }
Runners == HandlerTasks \cup { "endpoint" }

engine_state ==
    << engine_vars, audio_in_vars, audio_out_vars, api_key_set, p_session,
       p_backend_client, provider_calls, task_vars, caller_vars, reader_vars,
       events_taken, call_events >>

\* what no step of the handler writes but the message loop taking a frame:
\* the logger (never attached) and the record of the frames taken
h_fixed == << h_logger, h_received, h_handled >>

\* lines 656-689: _try_log_call_event writes a row only with a logger
HandlerTryLog(e) == IF h_logger THEN h_call_events \cup { e } ELSE h_call_events

\* a shutdown() that runs its body whatever the flag says
HandlerShutdownGuardMissing == FALSE

\* lines 247-249: `if self._is_shutting_down: return`
HandlerShutdownAlreadyBegun == h_is_shutting_down

\* a cancellation that spares no task
SparesNobody(t, r) == TRUE

\* lines 301 and 306: `task is not current`
NotCurrent(t, r) == t # r

\* a cancellation that cancels no task
CancelsNothing(r) == h_task

\* lines 299-302: cancel() on every task that is not the current one and
\* is not done
CancelBackgroundTasks(r) ==
    [ t \in HandlerTasks |->
        IF NotCurrent(t, r) /\ h_task[t] = "running" THEN "cancelling" ELSE h_task[t] ]

\* lines 304-308: the tasks `await task` has to wait for
Undrained(r) ==
    { t \in HandlerTasks : NotCurrent(t, r) /\ h_task[t] \in { "running", "cancelling" } }

ShutdownStages ==
    << "session_close", "drain", "finalize", "client_close", "ws_close", "return" >>

StageIndex(s) ==
    IF s = "enter" THEN 0 ELSE CHOOSE i \in 1..Len(ShutdownStages) : ShutdownStages[i] = s

\* the condition under which shutdown() suspends at a stage
StageWanted(s, r) ==
    CASE s = "session_close" -> h_session # NoneVal
      [] s = "drain" -> Undrained(r) # {}
      [] s = "finalize" -> h_logger
      [] s = "client_close" -> h_backend_client
      [] s = "ws_close" -> client_state # "DISCONNECTED"
      [] OTHER -> TRUE

\* the first suspension of shutdown() after position `from`, or its return
NextStage(r, from) ==
    LET later == { i \in (StageIndex(from) + 1)..Len(ShutdownStages) :
                      StageWanted(ShutdownStages[i], r) }
    IN  ShutdownStages[CHOOSE i \in later : \A j \in later : i <= j]

\* shutdown() run by r from position `from` up to its next suspension:
\* lines 257-279 between two awaits
Advance(r, from) ==
    LET to == NextStage(r, from)
        cancels == StageIndex(from) < StageIndex("drain") /\ to # "session_close"
    IN  /\ h_sd' = [ h_sd EXCEPT ![r] = IF to = "return" THEN "idle" ELSE to ]
        /\ h_task' = IF cancels THEN CancelBackgroundTasks(r) ELSE h_task
        /\ client_state' = IF to = "ws_close" THEN "DISCONNECTED" ELSE client_state
        /\ h_calls' =
              [ h_calls EXCEPT
                  !.session_close = IF to = "session_close" THEN @ + 1 ELSE @,
                  !.finalize_call = IF to = "finalize" THEN @ + 1 ELSE @,
                  !.client_close = IF to = "client_close" THEN @ + 1 ELSE @,
                  !.ws_close = IF to = "ws_close" THEN @ + 1 ELSE @ ]

\* `await self.shutdown()` made by r at call site `site`, r resuming at
\* `ret` afterwards: the guard, the flag and the body up to its first
\* suspension
CallShutdown(r, ret, site) ==
    /\ h_pc' = [ h_pc EXCEPT ![r] = ret ]
    /\ h_sites' = h_sites \cup { site }
    /\ IF HandlerShutdownAlreadyBegun
       THEN UNCHANGED << h_is_shutting_down, h_sd, h_task, client_state, h_calls >>
       ELSE /\ h_is_shutting_down' = TRUE
            /\ Advance(r, "enter")

\* r is not suspended inside shutdown() and has not been cancelled
Runs(r) ==
    /\ h_sd[r] = "idle"
    /\ r \in HandlerTasks => h_task[r] = "running"

\* an await of shutdown() returns to r: the awaited close has returned or
\* raised (suppressed), the awaited tasks have ended
ShutdownResumes(r) ==
    /\ h_sd[r] \in { "session_close", "drain", "finalize", "client_close", "ws_close" }
    /\ r \in HandlerTasks => h_task[r] = "running"
    /\ h_sd[r] = "drain" => Undrained(r) = {}
    /\ Advance(r, h_sd[r])
    /\ UNCHANGED << h_is_shutting_down, h_session, h_backend_client, h_fixed, h_call_events, h_pc,
                    h_frames, h_sites, engine_state, service_vars >>

\* a task whose cancellation was requested ends with CancelledError at the
\* await it is suspended in
HandlerTaskUnwinds(t) ==
    /\ h_task[t] = "cancelling"
    /\ h_task' = [ h_task EXCEPT ![t] = "cancelled" ]
    /\ h_sd' = [ h_sd EXCEPT ![t] = IF @ = "idle" THEN "idle" ELSE "abandoned" ]
    /\ UNCHANGED << h_is_shutting_down, h_session, h_backend_client, h_fixed, h_call_events, client_state,
                    h_pc, h_frames, h_calls, h_sites, engine_state, service_vars >>

\* the coroutine of a loop task returns
LoopReturns(t) ==
    /\ Runs(t)
    /\ h_pc[t] = "finish"
    /\ h_task' = [ h_task EXCEPT ![t] = "done" ]
    /\ UNCHANGED << h_is_shutting_down, h_session, h_backend_client, h_fixed, h_call_events, client_state,
                    h_pc, h_sd, h_frames, h_calls, h_sites, engine_state, service_vars >>

\* a loop whose `except Exception` branch runs: _log_internal_error writes
\* nothing without a logger, then shutdown() is called
LoopFailsInto(t) ==
    /\ h_call_events' = HandlerTryLog("gateway_error")
    /\ CallShutdown(t, "finish", t)
    /\ UNCHANGED << h_session, h_backend_client, h_fixed, h_frames, engine_state, service_vars >>

\* lines 310-327: the session iterator or _handle_realtime_event raises
RealtimeLoopFails ==
    /\ Runs("realtime_loop")
    /\ h_pc["realtime_loop"] = "next_event"
    /\ LoopFailsInto("realtime_loop")

\* lines 318-320: the session iterator is exhausted
RealtimeStreamEnds ==
    /\ Runs("realtime_loop")
    /\ h_pc["realtime_loop"] = "next_event"
    /\ h_task' = [ h_task EXCEPT !["realtime_loop"] = "done" ]
    /\ UNCHANGED << h_is_shutting_down, h_session, h_backend_client, h_fixed, h_call_events, client_state,
                    h_pc, h_sd, h_frames, h_calls, h_sites, engine_state, service_vars >>

\* texts Twilio (or anything else on the socket) may send, and what
\* json.loads makes of each: the parsed message, or JSONDecodeError
HandlerTexts == { "{\"event\":\"media\"}", "{\"event\":\"media\"" }

JSONDecodeError == "JSONDecodeError"

\* the outcome of a call that may raise, and a parsed message (a dict, of
\* which the loop reads the "event" key only)
Raised(exc) == [ raised |-> exc, event |-> NoneVal ]
Message(ev) == [ raised |-> NoneVal, event |-> ev ]

json_loads(text) ==
    CASE text = "{\"event\":\"media\"}" -> Message("media")
      [] text = "{\"event\":\"mark\"}" -> Message("mark")
      [] OTHER -> Raised(JSONDecodeError)

\* a message loop that hands every text on, as a message without an event
LoadsAnything(text) ==
    IF json_loads(text).raised # NoneVal THEN Message(NoneVal) ELSE json_loads(text)

\* line 340: message = json.loads(message_text)
LoadMessage(text) == json_loads(text)

\* lines 337-346: a frame that is handled without an exception (media,
\* mark): it is parsed and passed to _handle_twilio_message; the loop then
\* tests _is_shutting_down again
MessageLoopFrame ==
    /\ Runs("message_loop")
    /\ h_pc["message_loop"] = "receive_text"
    /\ h_frames < MaxHandlerFrames
    /\ \E text \in HandlerTexts :
          /\ LoadMessage(text).raised = NoneVal
          /\ h_received' = Append(h_received, text)
          /\ h_handled' = Append(h_handled, LoadMessage(text))
    /\ h_frames' = h_frames + 1
    /\ h_task' = [ h_task EXCEPT !["message_loop"] = IF h_is_shutting_down THEN "done" ELSE @ ]
    /\ UNCHANGED << h_is_shutting_down, h_session, h_backend_client, h_logger, h_call_events, client_state,
                    h_pc, h_sd, h_calls, h_sites, engine_state, service_vars >>

\* lines 339-344: json.loads raises JSONDecodeError; a warning, then
\* _log_internal_error (which returns at once without a logger, line 672)
\* and `continue`: back to the test of the while
MessageLoopNotJson ==
    /\ Runs("message_loop")
    /\ h_pc["message_loop"] = "receive_text"
    /\ h_frames < MaxHandlerFrames
    /\ \E text \in HandlerTexts :
          /\ LoadMessage(text).raised = JSONDecodeError
          /\ h_received' = Append(h_received, text)
    /\ h_call_events' = HandlerTryLog("gateway_error")
    /\ h_frames' = h_frames + 1
    /\ h_task' = [ h_task EXCEPT !["message_loop"] = IF h_is_shutting_down THEN "done" ELSE @ ]
    /\ UNCHANGED << h_is_shutting_down, h_session, h_backend_client, h_logger, h_handled, client_state,
                    h_pc, h_sd, h_calls, h_sites, engine_state, service_vars >>

\* lines 457-460: a stop frame
MessageLoopStop ==
    /\ Runs("message_loop")
    /\ h_pc["message_loop"] = "receive_text"
    /\ h_call_events' = HandlerTryLog("stop")
    /\ CallShutdown("message_loop", "finish", "stop")
    /\ UNCHANGED << h_session, h_backend_client, h_fixed, h_frames, engine_state, service_vars >>

\* lines 349-350: receive_text raises WebSocketDisconnect
MessageLoopDisconnect ==
    /\ Runs("message_loop")
    /\ h_pc["message_loop"] = "receive_text"
    /\ client_state' = "DISCONNECTED"
    /\ h_task' = [ h_task EXCEPT !["message_loop"] = "done" ]
    /\ UNCHANGED << h_is_shutting_down, h_session, h_backend_client, h_fixed, h_call_events,
                    h_pc, h_sd, h_frames, h_calls, h_sites, engine_state, service_vars >>

\* lines 351-354: any other exception, among them the TypeError of a start
\* frame that carries a callSid
MessageLoopFails ==
    /\ Runs("message_loop")
    /\ h_pc["message_loop"] = "receive_text"
    /\ LoopFailsInto("message_loop")

\* lines 624-633: the loop wakes with _is_shutting_down set
FlushTaskEnds ==
    /\ Runs("buffer_flush")
    /\ h_pc["buffer_flush"] = "sleep"
    /\ h_is_shutting_down
    /\ h_task' = [ h_task EXCEPT !["buffer_flush"] = "done" ]
    /\ UNCHANGED << h_is_shutting_down, h_session, h_backend_client, h_fixed, h_call_events, client_state,
                    h_pc, h_sd, h_frames, h_calls, h_sites, engine_state, service_vars >>

\* lines 636-639: _flush_audio_buffer raises
FlushTaskFails ==
    /\ Runs("buffer_flush")
    /\ h_pc["buffer_flush"] = "sleep"
    /\ LoopFailsInto("buffer_flush")

\* twilio_stream lines 339-341 and start() lines 163-171: the endpoint
\* builds the handler and calls start(), which creates the backend client
\* and raises without an API key
HandlerStartEnter ==
    /\ h_pc["endpoint"] = "begin"
    /\ h_backend_client' = TRUE
    /\ h_pc' = [ h_pc EXCEPT !["endpoint"] = IF api_key_set THEN "runner_run" ELSE "stream_finally" ]
    /\ UNCHANGED << h_is_shutting_down, h_session, h_fixed, h_call_events, client_state, h_task, h_sd,
                    h_frames, h_calls, h_sites, engine_state, service_vars >>

\* line 175: `await runner.run(...)` returns a session or raises
HandlerRunnerRun ==
    /\ h_pc["endpoint"] = "runner_run"
    /\ \E ok \in BOOLEAN :
          /\ h_session' = IF ok THEN "session" ELSE h_session
          /\ h_pc' = [ h_pc EXCEPT !["endpoint"] = IF ok THEN "session_enter" ELSE "stream_finally" ]
    /\ UNCHANGED << h_is_shutting_down, h_backend_client, h_fixed, h_call_events, client_state, h_task,
                    h_sd, h_frames, h_calls, h_sites, engine_state, service_vars >>

\* line 193: `await self.session.enter()` returns or raises
HandlerSessionEnter ==
    /\ h_pc["endpoint"] = "session_enter"
    /\ \E ok \in BOOLEAN :
          h_pc' = [ h_pc EXCEPT !["endpoint"] = IF ok THEN "accept" ELSE "stream_finally" ]
    /\ UNCHANGED << h_is_shutting_down, h_session, h_backend_client, h_fixed, h_call_events, client_state,
                    h_task, h_sd, h_frames, h_calls, h_sites, engine_state, service_vars >>

\* lines 196-202 and 212-227: `await self.websocket.accept()` returns and
\* the three tasks are created, after which wait_until_done() awaits the
\* message loop task; or accept raises, the peer being gone or not
HandlerAccept ==
    /\ h_pc["endpoint"] = "accept"
    /\ \/ /\ client_state' = "CONNECTED"
          /\ h_task' = [ t \in HandlerTasks |-> "running" ]
          /\ h_pc' = [ h_pc EXCEPT !["endpoint"] = "await_message_loop" ]
       \/ /\ client_state' \in { "CONNECTING", "DISCONNECTED" }
          /\ h_pc' = [ h_pc EXCEPT !["endpoint"] = "stream_finally" ]
          /\ UNCHANGED h_task
    /\ UNCHANGED << h_is_shutting_down, h_session, h_backend_client, h_fixed, h_call_events, h_sd,
                    h_frames, h_calls, h_sites, engine_state, service_vars >>

\* a wait_until_done() whose shutdown() is not in a finally block: it is
\* skipped when the awaited task raises
WaitCallsShutdownOnReturn == h_task["message_loop"] = "done"

\* lines 225-230: try/finally
WaitCallsShutdown == TRUE

\* lines 225-230: the message loop task has ended and wait_until_done()
\* resumes: shutdown() is called, then control reaches the endpoint's
\* finally block
WaitUntilDoneResumes ==
    /\ Runs("endpoint")
    /\ h_pc["endpoint"] = "await_message_loop"
    /\ h_task["message_loop"] \in { "done", "cancelled" }
    /\ IF WaitCallsShutdown
       THEN CallShutdown("endpoint", "stream_finally", "wait_until_done")
       ELSE /\ h_pc' = [ h_pc EXCEPT !["endpoint"] = "stream_finally" ]
            /\ UNCHANGED << h_is_shutting_down, h_sd, h_task, client_state, h_calls, h_sites >>
    /\ UNCHANGED << h_session, h_backend_client, h_fixed, h_call_events, h_frames,
                    engine_state, service_vars >>

\* twilio_stream lines 349-351: `finally: await handler.shutdown()`
StreamFinally ==
    /\ Runs("endpoint")
    /\ h_pc["endpoint"] = "stream_finally"
    /\ CallShutdown("endpoint", "returned", "twilio_stream")
    /\ UNCHANGED << h_session, h_backend_client, h_fixed, h_call_events, h_frames,
                    engine_state, service_vars >>

HandlerStart == HandlerStartEnter \/ HandlerRunnerRun \/ HandlerSessionEnter \/ HandlerAccept

RealtimeSessionLoop == RealtimeLoopFails \/ RealtimeStreamEnds

TwilioMessageLoop ==
    \/ MessageLoopFrame \/ MessageLoopNotJson
    \/ MessageLoopStop \/ MessageLoopDisconnect \/ MessageLoopFails

HandlerFlushLoop == FlushTaskEnds \/ FlushTaskFails

HandlerShutdown == \E r \in Runners : ShutdownResumes(r)

HandlerCancellation == \E t \in HandlerTasks : HandlerTaskUnwinds(t) \/ LoopReturns(t)

HandlerNext ==
    \/ HandlerStart
    \/ WaitUntilDoneResumes
    \/ StreamFinally
    \/ RealtimeSessionLoop
    \/ TwilioMessageLoop
    \/ HandlerFlushLoop
    \/ HandlerShutdown
    \/ HandlerCancellation

\* the event loop runs every task that is ready: an awaited close comes
\* back, a cancelled task unwinds, a finished coroutine returns, and the
\* endpoint goes on when the task it awaits is over.  Frames, disconnects,
\* failures and the awaits of start() are not forced.
HandlerFairness ==
    /\ \A r \in Runners : WF_vars(ShutdownResumes(r))
    /\ \A t \in HandlerTasks : WF_vars(HandlerTaskUnwinds(t) \/ LoopReturns(t))
    /\ WF_vars(WaitUntilDoneResumes)
    /\ WF_vars(StreamFinally)

HandlerSpec == PlaybackInit /\ [][HandlerNext]_vars /\ HandlerFairness

\* every task of the handler has ended
HandlerTasksEnded == \A t \in HandlerTasks : h_task[t] \in { "done", "cancelled" }

\* shutdown() has run to its end on a handler that was started: session,
\* backend client and websocket are closed and no task is left
HandlerShutDown ==
    /\ h_is_shutting_down
    /\ \A r \in Runners : h_sd[r] = "idle"
    /\ HandlerTasksEnded
    /\ h_calls.session_close = 1
    /\ h_calls.client_close = 1
    /\ client_state = "DISCONNECTED"

ShutdownSparesItsTask ==
    \A r \in HandlerTasks :
        /\ h_sd[r] # "idle" => h_task[r] = "running"
        /\ h_sd[r] \in { "finalize", "client_close", "ws_close" } =>
              \A t \in HandlerTasks \ { r } : h_task[t] \notin { "running", "cancelling" }

\* C15: shutdown() terminates whichever task calls it: a loop task that
\* calls it is neither cancelled nor awaited by it, the other loop tasks
\* are cancelled and drained, and every shutdown() that began returns.
ShutdownTerminates ==
    /\ []ShutdownSparesItsTask
    /\ \A r \in Runners : (h_sd[r] # "idle") ~> (h_sd[r] = "idle")

\* the flush loop runs shutdown(), is past the drain, and both other
\* loops were cancelled
FlushLoopDrainedTheOthers ==
    /\ h_sd["buffer_flush"] = "client_close"
    /\ h_task["buffer_flush"] = "running"
    /\ h_task["realtime_loop"] = "cancelled"
    /\ h_task["message_loop"] = "cancelled"

\* the message loop task has ended
MessageLoopOver == h_task["message_loop"] \in { "done", "cancelled" }

\* C19: once the message loop has been started, wait_until_done() calls
\* shutdown() after the loop has ended, whether it ended by a disconnect,
\* a stop frame, an error or a cancellation.
WaitAlwaysCallsShutdown == MessageLoopOver ~> ("wait_until_done" \in h_sites)

\* the message loop was cancelled by the shutdown of a failing realtime
\* loop, and wait_until_done() has called shutdown() since
WaitShutdownAfterCancellation ==
    /\ h_task["message_loop"] = "cancelled"
    /\ h_sites = { "realtime_loop", "wait_until_done" }
    /\ h_pc["endpoint"] = "stream_finally"

\* C20: whatever the number of shutdown() calls and the tasks making
\* them, the realtime session, the backend client and the websocket are
\* each closed at most once, and the websocket is closed only while it is
\* not disconnected.
HandlerShutdownClosesOnce ==
    [][ /\ h_calls'.session_close <= 1
        /\ h_calls'.client_close <= 1
        /\ h_calls'.ws_close <= 1
        /\ h_calls'.ws_close # h_calls.ws_close => client_state # "DISCONNECTED" ]_vars

\* shutdown() was called from five call sites and each resource was
\* closed once
FiveCallsOneClose ==
    /\ h_sites = { "stop", "realtime_loop", "buffer_flush", "wait_until_done", "twilio_stream" }
    /\ h_pc["endpoint"] = "returned"
    /\ h_calls = [ session_close |-> 1, finalize_call |-> 0, client_close |-> 1,
                   ws_close |-> 1 ]

(***************************************************************************)
(* Text frames that are not JSON.                                          *)
(***************************************************************************)
\* the message loop has just taken a text that json.loads rejects
TakesNotJson ==
    /\ Len(h_received') = Len(h_received) + 1
    /\ json_loads(h_received'[Len(h_received')]).raised = JSONDecodeError

RECURSIVE ParsedOnly(_)
ParsedOnly(texts) ==
    IF texts = << >> THEN << >>
    ELSE LET rest == ParsedOnly(Tail(texts))
         IN  IF json_loads(Head(texts)).raised = NoneVal
             THEN << json_loads(Head(texts)) >> \o rest
             ELSE rest

\* C21: a text frame that is not valid JSON is never passed to
\* _handle_twilio_message, and taking it neither ends the message loop
\* nor calls shutdown(): the loop is back at its while test, where it goes
\* on to the next frame unless a shutdown had already begun
NotJsonDropped ==
    [][ /\ h_handled' = ParsedOnly(h_received')
        /\ TakesNotJson =>
              /\ h_handled' = h_handled
              /\ h_sites' = h_sites
              /\ h_is_shutting_down' = h_is_shutting_down
              /\ h_sd' = h_sd
              /\ h_pc'["message_loop"] = "receive_text"
              /\ ~h_is_shutting_down => h_task'["message_loop"] = "running"
      ]_vars

\* a text that is not JSON was taken and the frame after it was handled
FrameHandledAfterNotJson ==
    /\ h_received = << "{\"event\":\"media\"", "{\"event\":\"media\"}" >>
    /\ h_handled = << Message("media") >>
    /\ h_task["message_loop"] = "running"
    /\ h_sites = {}

(***************************************************************************)
(* engine/factory.py: create_call_engine.  A str is a sequence of          *)
(* one-character strings.                                                  *)
(***************************************************************************)
\* padding put around a mode word is at most this long
MaxPad == 1

UpperCase ==
    << "A","B","C","D","E","F","G","H","I","J","K","L","M","N","O","P",
       "Q","R","S","T","U","V","W","X","Y","Z" >>
LowerCase ==
    << "a","b","c","d","e","f","g","h","i","j","k","l","m","n","o","p",
       "q","r","s","t","u","v","w","x","y","z" >>

\* the ASCII characters str.strip() without argument removes
Whitespace == { " ", "\t", "\n", "\r" }

\* str.lower(), on ASCII text
lower_char(c) ==
    IF \E i \in 1..26 : UpperCase[i] = c
    THEN LowerCase[CHOOSE i \in 1..26 : UpperCase[i] = c]
    ELSE c
lower(text) == [ i \in 1..Len(text) |-> lower_char(text[i]) ]

\* str.strip(): what lies between the first and the last character that
\* is not whitespace
strip(text) ==
    LET keep == { i \in 1..Len(text) : text[i] \notin Whitespace }
    IN  IF keep = {} THEN << >>
        ELSE LET first == CHOOSE i \in keep : \A j \in keep : i <= j
                 last == CHOOSE i \in keep : \A j \in keep : j <= i
             IN  SubSeq(text, first, last)

realtime == << "r","e","a","l","t","i","m","e" >>
pipeline == << "p","i","p","e","l","i","n","e" >>

ModeWords ==
    { realtime, pipeline,
      << "R","E","A","L","T","I","M","E" >>, << "R","e","a","l","T","i","m","e" >>,
      << "P","I","P","E","L","I","N","E" >>, << "P","i","p","e","l","i","n","E" >>,
      << "r","e","a","l"," ","t","i","m","e" >>, << "r","e","a","l","t","i","m","e","2" >>,
      << "p","i","p","e","l","i","n","e","s" >>, << "u","n","k","n","o","w","n" >>,
      << >> }

Pads == UNION { [ 1..n -> { " ", "\t", "\n" } ] : n \in 0..MaxPad }

ModeStrings == { l \o w \o r : l \in Pads, w \in ModeWords, r \in Pads }

\* a normalisation that does not trim
LowerOnly(mode) == lower(mode)

\* line 30: normalized = mode.strip().lower()
Normalized(mode) == lower(strip(mode))

\* lines 15-40
create_call_engine(mode) ==
    /\ f_result = NoneVal
    /\ f_mode' = mode
    /\ IF Normalized(mode) = realtime
       THEN f_engines' = f_engines + 1 /\ f_result' = "RealtimeCallEngine"
       ELSE /\ f_engines' = f_engines
            /\ f_result' = IF Normalized(mode) = pipeline THEN "NotImplementedError"
                                                           ELSE "ValueError"
    /\ UNCHANGED << engine_state, handler_vars, bridge_vars, store_vars, log_vars, closer_vars, inventory_vars >>

FactoryNext == \E mode \in ModeStrings : create_call_engine(mode)

FactorySpec == LifecycleInit /\ [][FactoryNext]_vars

\* a mode as a person reads it: the letters, folded to lower case, without
\* the blanks around them
RECURSIVE Trimmed(_)
Trimmed(text) ==
    IF text = << >> THEN text
    ELSE IF Head(text) \in Whitespace THEN Trimmed(Tail(text))
    ELSE IF text[Len(text)] \in Whitespace THEN Trimmed(SubSeq(text, 1, Len(text) - 1))
    ELSE text

Reads(text, word) ==
    /\ Len(Trimmed(text)) = Len(word)
    /\ \A i \in 1..Len(word) :
          \/ Trimmed(text)[i] = word[i]
          \/ \E k \in 1..26 : Trimmed(text)[i] = UpperCase[k] /\ word[i] = LowerCase[k]

\* C22: create_call_engine returns a RealtimeCallEngine exactly for a mode
\* that reads "realtime" once trimmed and lower-cased, raises
\* NotImplementedError exactly for one that reads "pipeline", raises
\* ValueError for every other mode, and constructs an engine only when it
\* returns one
FactoryByNormalizedMode ==
    f_result # NoneVal =>
        /\ f_result = "RealtimeCallEngine" <=> Reads(f_mode, realtime)
        /\ f_result = "NotImplementedError" <=> Reads(f_mode, pipeline)
        /\ f_result = "ValueError" <=> ~Reads(f_mode, realtime) /\ ~Reads(f_mode, pipeline)
        /\ f_engines = IF f_result = "RealtimeCallEngine" THEN 1 ELSE 0

\* a padded, mixed-case "realtime" gave an engine
PaddedRealtimeAccepted ==
    /\ f_mode = << " ", "R","e","a","l","T","i","m","e", "\n" >>
    /\ f_result = "RealtimeCallEngine"
    /\ f_engines = 1

\* a padded upper-case "pipeline" raised NotImplementedError, no engine
PaddedPipelineRejected ==
    /\ f_mode = << "\t", "P","I","P","E","L","I","N","E" >>
    /\ f_result = "NotImplementedError"
    /\ f_engines = 0

(***************************************************************************)
(* mcp/backend_server.py: BackendMCPServer.  A dict of tool arguments is  *)
(* a record of its two possible keys, a key it lacks holding Absent; None  *)
(* is "None" and the empty str is "".                                      *)
(***************************************************************************)
ToolCalls == { 1, 2 }

\* call ids a start frame may bind
BoundCallIds == { "CA-1", "CA-2" }

\* the tools of _tool_dispatch that the model invokes, and an unknown one
KnownTools == { "search_tee_times", "book_tee_time" }
ToolNames == KnownTools \cup { "drop_tables" }

Absent == "<absent>"
Dict(players, cid) == [ none |-> FALSE, players |-> players, call_id |-> cid ]
EmptyDict == Dict(Absent, Absent)
\* the value None where a dict is expected
NoDict == [ none |-> TRUE, players |-> Absent, call_id |-> Absent ]

\* arguments of an invocation: None, or a dict with or without "players"
\* and with "call_id" absent, None, empty or set
ToolArguments ==
    { NoDict } \cup { Dict(p, c) : p \in { Absent, "2" },
                                  c \in { Absent, NoneVal, "", "CA-1", "CA-999" } }

\* bool(v) of a str or None
Truthy(v) == v \notin { NoneVal, "" }

\* dict.get(key)
Get(d, key) == IF d[key] = Absent THEN NoneVal ELSE d[key]

\* d[key] = v
DictSet(d, key, v) == [ d EXCEPT ![key] = v ]

\* arguments or {}
OrEmptyDict(arguments) == IF arguments.none THEN EmptyDict ELSE arguments

\* an injection that overwrites whatever call_id the invocation carries
InjectAlways(arguments) ==
    IF Truthy(b_call_id) THEN DictSet(arguments, "call_id", b_call_id) ELSE arguments

\* lines 232-248
inject_call_id(arguments) ==
    IF Truthy(b_call_id) /\ ~Truthy(Get(arguments, "call_id"))
    THEN DictSet(arguments, "call_id", b_call_id)
    ELSE arguments

\* OpenAIRealtimeProvider.set_call_context on a started provider (lines
\* 108-114), as the engine calls it for a start frame with a callSid:
\* set_call_id(call_id), then set_logger(logger) with logger.call_id the
\* same id (backend_server.py lines 55-75)
SetCallContext(cid) ==
    /\ b_call_id' = cid
    /\ b_logger' = cid
    /\ UNCHANGED << b_pc, b_args, b_in, b_sent >>
    /\ UNCHANGED << engine_state, handler_vars, factory_vars, store_vars, log_vars, closer_vars, inventory_vars >>

\* call_tool up to its first await (lines 175-190): args is computed; with
\* a logger the coroutine waits for resolve_tool_call_reference, without
\* one it goes straight on to _dispatch_tool
CallToolEnter(i, tool_name, arguments) ==
    /\ b_pc[i] = "idle"
    /\ b_in' = [ b_in EXCEPT ![i] = [ tool |-> tool_name, arguments |-> arguments,
                                      bound |-> b_call_id ] ]
    /\ b_args' = [ b_args EXCEPT
                     ![i] = inject_call_id(OrEmptyDict(arguments)) ]
    /\ b_pc' = [ b_pc EXCEPT ![i] = "dispatch" ]
    /\ UNCHANGED << b_call_id, b_logger, b_sent >>
    /\ UNCHANGED << engine_state, handler_vars, factory_vars, store_vars, log_vars, closer_vars, inventory_vars >>

\* lines 192-217 and _dispatch_tool (lines 250-269): a known tool posts
\* args through the backend client; an unknown one raises ValueError,
\* which call_tool turns into an error result; the call is then logged
\* and returns
CallToolDispatch(i) ==
    /\ b_pc[i] = "dispatch"
    /\ b_sent' = IF b_in[i].tool \in KnownTools
                 THEN Append(b_sent, [ call |-> i, tool |-> b_in[i].tool, payload |-> b_args[i] ])
                 ELSE b_sent
    /\ b_pc' = [ b_pc EXCEPT ![i] = "done" ]
    /\ UNCHANGED << b_call_id, b_logger, b_args, b_in >>
    /\ UNCHANGED << engine_state, handler_vars, factory_vars, store_vars, log_vars, closer_vars, inventory_vars >>

BindCallId == \E cid \in BoundCallIds : b_call_id # cid /\ SetCallContext(cid)

CallTool ==
    \E i \in ToolCalls :
        \/ \E t \in ToolNames, a \in ToolArguments : CallToolEnter(i, t, a)
        \/ CallToolDispatch(i)

BridgeNext == BindCallId \/ CallTool

\* a started provider: its BackendMCPServer exists, no call id is bound
BridgeInit == LifecycleInit /\ api_key_set

BridgeSpec == BridgeInit /\ [][BridgeNext]_vars

\* what the backend must receive for an invocation made with call id cid
\* bound: the invocation's arguments, with cid as call_id unless they
\* carry a call_id of their own
Expected(arguments, cid) ==
    [ none |-> FALSE,
      players |-> arguments.players,
      call_id |-> IF arguments.call_id \in { Absent, NoneVal, "" } THEN cid
                  ELSE arguments.call_id ]

\* C23: every payload posted to the backend for an invocation that began
\* with a call id bound carries a call_id: the invocation's own when it
\* had one, the bound one otherwise; the other arguments are untouched
CallIdInEveryInvocation ==
    \A n \in 1..Len(b_sent) :
        LET inv == b_in[b_sent[n].call]
        IN  inv.bound # NoneVal =>
                /\ b_sent[n].payload.call_id \notin { Absent, NoneVal, "" }
                /\ b_sent[n].payload = Expected(inv.arguments, inv.bound)

\* one invocation without call_id and one with its own, both posted after
\* a call id was bound
InjectedAndPreserved ==
    /\ Len(b_sent) = 2
    /\ b_in[1].bound = "CA-1" /\ b_in[1].arguments = Dict("2", Absent)
    /\ b_sent[1].call = 1 /\ b_sent[1].payload = Dict("2", "CA-1")
    /\ b_in[2].bound = "CA-1" /\ b_in[2].arguments = Dict("2", "CA-999")
    /\ b_sent[2].call = 2 /\ b_sent[2].payload = Dict("2", "CA-999")

(***************************************************************************)
(* Provider audio that arrives before the stream id.                       *)
(***************************************************************************)
\* the event loop takes an audio_output event while no stream id is known
TakesAudioWithoutStreamId ==
    /\ Len(events_taken') = Len(events_taken) + 1
    /\ events_taken'[Len(events_taken')].event.event_name = "audio_output"
    /\ stream_sid = NoneVal

\* every media frame sent so far belongs, in order, to an audio event that
\* was handled while the stream id was known
OnlyKnownStreamAudioSent ==
    /\ Len(MediaFramesOut) = Len(EmittableAudioEvents)
    /\ \A i \in 1..Len(MediaFramesOut) :
          /\ MediaFramesOut[i].payload = EncodedAudio[EmittableAudioEvents[i].event.audio_bytes]
          /\ MediaFramesOut[i].streamSid # NoneVal
    /\ Len(MarkFramesOut) <= Len(EmittableAudioEvents)
    /\ mark_counter <= Len(EmittableAudioEvents)

\* C25: an audio event handled while no start frame has supplied a stream
\* id is dropped: its handling sends no frame, mints no mark id and leaves
\* the mark table alone, and its audio is not sent later, when the stream
\* id is known
AudioBeforeStreamIdDropped ==
    /\ [][ TakesAudioWithoutStreamId =>
              /\ outbound' = outbound
              /\ mark_counter' = mark_counter
              /\ twilio_mark_playback_map' = twilio_mark_playback_map
              /\ minted' = minted
              /\ task_pc'[EventLoopTask] = "next_event" ]_vars
    /\ []OnlyKnownStreamAudioSent

\* audio came before the start frame and was dropped; the audio that came
\* after it was sent as one media frame and one mark frame
EarlyAudioDroppedLaterAudioSent ==
    /\ Len(events_taken) = 2
    /\ events_taken[1].event.audio_bytes = << 0, 1 >> /\ ~events_taken[1].stream_known
    /\ events_taken[2].event.audio_bytes = << 255 >> /\ events_taken[2].stream_known
    /\ stream_sid = "MZ-1"
    /\ Len(outbound) = 2
    /\ outbound[1].event = "media" /\ outbound[1].payload = EncodedAudio[<< 255 >>]
    /\ outbound[2].event = "mark" /\ outbound[2].name = str(1)
    /\ DOMAIN twilio_mark_playback_map = { str(1) }
    /\ EventLoopAtRest

(***************************************************************************)
(* The two writers of the caller buffer.                                   *)
(***************************************************************************)
\* a flush has just taken a window out of the caller buffer
TakesWindow == Len(flushed_windows') = Len(flushed_windows) + 1

\* C27: however media frames and the stale-buffer loop interleave, a
\* flush takes the whole caller buffer and leaves it empty in the same
\* step, and the payloads of send_audio, concatenated in call order, are
\* the first bytes decoded from the inbound frames, in arrival order: what
\* follows them is the warm-up buffer and then the caller buffer
FlushesKeepInboundOrder ==
    /\ [][ TakesWindow =>
              /\ caller_audio_buffer' = << >>
              /\ CatAll(flushed_windows') = inbound_decoded' ]_vars
    /\ [](/\ ByteLen(CatAll(sent_audio)) <= ByteLen(inbound_decoded)
          /\ Cat(CatAll(sent_audio), Cat(startup_audio_buffer, caller_audio_buffer))
                = inbound_decoded)

\* the flush loop sent a stale fragment and is still inside send_audio
\* when the media path sends the window the next two frames filled
BothWritersSending ==
    /\ startup_buffer_chunks = 0
    /\ task_pc[FlushLoopTask] = "send_audio"
    /\ read_pc = "send_audio"
    /\ Len(sent_audio) = 2
    /\ sent_audio[1] = DecodedPayload["p160"]
    /\ sent_audio[2] = Cat(DecodedPayload["p240"], DecodedPayload["p160"])
    /\ caller_audio_buffer = << >>

(***************************************************************************)
(* backend/app/services/reservations.py: ReservationStore.create, called   *)
(* on connections that the routes open with db.transaction().  A row       *)
(* written inside a transaction carries the connection in `by` until the   *)
(* commit; a statement sees the committed rows and its own connection's.   *)
(***************************************************************************)
\* create() calls made in one behaviour
MaxCreates == 2

Connections == { 1, 2 }
IdempotencyKeys == { "idem-1", "idem-2" }
PlayerCounts == { 2, 4 }

Committed == 0
VisibleTo(c, row) == row.by \in { Committed, c }

\* the place of a Reservation in the record of a call that raised
Reservation0 == [ reservation_id |-> 0, players |-> 0, confirmation_code |-> 0 ]

NoCreateLocal ==
    [ idempotency_key |-> NoneVal, players |-> 0, reservation_id |-> 0,
      candidates |-> {}, writes |-> 0 ]

\* lines 131-146: the reservation_changes rows with this key, joined to
\* their reservations
ExistingFor(c, key) ==
    { n \in 1..Len(r_changes) :
        /\ VisibleTo(c, r_changes[n])
        /\ r_changes[n].idempotency_key = key
        /\ r_changes[n].reservation_id \in 1..Len(r_reservations)
        /\ VisibleTo(c, r_reservations[r_changes[n].reservation_id]) }

\* _row_to_reservation (lines 702-740), for the columns the model keeps
Reservation(id) ==
    [ reservation_id |-> id, players |-> r_reservations[id].num_players,
      confirmation_code |-> r_reservations[id].confirmation_code ]

\* a create() that takes every key for a new one
ExistingIgnored(rows) == FALSE

\* line 151: `if existing:`
ExistingFound(rows) == rows # {}

\* db.transaction() (backend/app/db.py lines 66-72) opens a transaction
StoreBegin(c) ==
    /\ r_pc[c] = "idle" /\ ~r_tx[c]
    /\ r_tx' = [ r_tx EXCEPT ![c] = TRUE ]
    /\ UNCHANGED << r_pc, r_local, r_reservations, r_changes, r_results >>
    /\ UNCHANGED << engine_state, handler_vars, factory_vars, bridge_vars, log_vars, closer_vars, inventory_vars >>

\* the transaction block ends after create() returned: commit
StoreCommit(c) ==
    /\ r_pc[c] = "returned" /\ r_tx[c]
    /\ r_tx' = [ r_tx EXCEPT ![c] = FALSE ]
    /\ r_pc' = [ r_pc EXCEPT ![c] = "idle" ]
    /\ r_local' = [ r_local EXCEPT ![c] = NoCreateLocal ]
    /\ r_reservations' = [ n \in 1..Len(r_reservations) |->
                             IF r_reservations[n].by = c
                             THEN [ r_reservations[n] EXCEPT !.by = Committed ]
                             ELSE r_reservations[n] ]
    /\ r_changes' = [ n \in 1..Len(r_changes) |->
                        IF r_changes[n].by = c
                        THEN [ r_changes[n] EXCEPT !.by = Committed ]
                        ELSE r_changes[n] ]
    /\ UNCHANGED r_results
    /\ UNCHANGED << engine_state, handler_vars, factory_vars, bridge_vars, log_vars, closer_vars, inventory_vars >>

\* lines 89-146: create() up to its first await; _require_active_transaction
\* raises RuntimeError outside a transaction
CreateCall(c, key, players) ==
    /\ r_pc[c] = "idle"
    /\ Len(r_results) + Cardinality({ d \in Connections : r_pc[d] \notin { "idle", "returned" } })
          < MaxCreates
    /\ IF r_tx[c]
       THEN /\ r_pc' = [ r_pc EXCEPT ![c] = "select" ]
            /\ r_local' = [ r_local EXCEPT ![c] =
                              [ NoCreateLocal EXCEPT !.idempotency_key = key,
                                                     !.players = players ] ]
            /\ UNCHANGED r_results
       ELSE /\ r_results' = Append(r_results,
                                   [ conn |-> c, idempotency_key |-> key, players |-> players,
                                     outcome |-> "RuntimeError", existing |-> {},
                                     reservation |-> Reservation0, writes |-> 0 ])
            /\ UNCHANGED << r_pc, r_local >>
    /\ UNCHANGED << r_tx, r_reservations, r_changes >>
    /\ UNCHANGED << engine_state, handler_vars, factory_vars, bridge_vars, log_vars, closer_vars, inventory_vars >>

\* the idempotency SELECT answers (lines 131-164): fetchrow hands back one
\* of the matching rows, and create() returns its reservation, or none and
\* create() goes on to the INSERT
CreateSelect(c) ==
    /\ r_pc[c] = "select"
    /\ LET rows == ExistingFor(c, r_local[c].idempotency_key)
       IN  IF ExistingFound(rows)
           THEN \E n \in rows :
                   /\ r_results' = Append(r_results,
                          [ conn |-> c, idempotency_key |-> r_local[c].idempotency_key,
                            players |-> r_local[c].players,
                            outcome |-> "returned", existing |-> rows,
                            reservation |-> Reservation(r_changes[n].reservation_id),
                            writes |-> r_local[c].writes ])
                   /\ r_pc' = [ r_pc EXCEPT ![c] = "returned" ]
                   /\ UNCHANGED r_local
           ELSE /\ r_pc' = [ r_pc EXCEPT ![c] = "insert_reservation" ]
                /\ r_local' = [ r_local EXCEPT ![c].candidates = rows ]
                /\ UNCHANGED r_results
    /\ UNCHANGED << r_tx, r_reservations, r_changes >>
    /\ UNCHANGED << engine_state, handler_vars, factory_vars, bridge_vars, log_vars, closer_vars, inventory_vars >>

\* lines 167-196: INSERT INTO reservations ... RETURNING reservation_id
CreateInsertReservation(c) ==
    /\ r_pc[c] = "insert_reservation"
    /\ r_reservations' = Append(r_reservations,
                                [ num_players |-> r_local[c].players,
                                  confirmation_code |-> Len(r_reservations) + 1,
                                  by |-> c ])
    /\ r_local' = [ r_local EXCEPT ![c].reservation_id = Len(r_reservations) + 1,
                                   ![c].writes = @ + 1 ]
    /\ r_pc' = [ r_pc EXCEPT ![c] = "insert_change" ]
    /\ UNCHANGED << r_tx, r_changes, r_results >>
    /\ UNCHANGED << engine_state, handler_vars, factory_vars, bridge_vars, log_vars, closer_vars, inventory_vars >>

\* lines 209-220: INSERT INTO reservation_changes, change_type CREATE
CreateInsertChange(c) ==
    /\ r_pc[c] = "insert_change"
    /\ r_changes' = Append(r_changes,
                           [ reservation_id |-> r_local[c].reservation_id,
                             change_type |-> "CREATE",
                             idempotency_key |-> r_local[c].idempotency_key,
                             by |-> c ])
    /\ r_local' = [ r_local EXCEPT ![c].writes = @ + 1 ]
    /\ r_pc' = [ r_pc EXCEPT ![c] = "reread" ]
    /\ UNCHANGED << r_tx, r_reservations, r_results >>
    /\ UNCHANGED << engine_state, handler_vars, factory_vars, bridge_vars, log_vars, closer_vars, inventory_vars >>

\* lines 232-260: the joined row is read back and returned
CreateReread(c) ==
    /\ r_pc[c] = "reread"
    /\ r_results' = Append(r_results,
           [ conn |-> c, idempotency_key |-> r_local[c].idempotency_key,
             players |-> r_local[c].players,
             outcome |-> "returned", existing |-> r_local[c].candidates,
             reservation |-> Reservation(r_local[c].reservation_id),
             writes |-> r_local[c].writes ])
    /\ r_pc' = [ r_pc EXCEPT ![c] = "returned" ]
    /\ UNCHANGED << r_tx, r_local, r_reservations, r_changes >>
    /\ UNCHANGED << engine_state, handler_vars, factory_vars, bridge_vars, log_vars, closer_vars, inventory_vars >>

Create(c) ==
    \/ \E key \in IdempotencyKeys, players \in PlayerCounts : CreateCall(c, key, players)
    \/ CreateSelect(c)
    \/ CreateInsertReservation(c)
    \/ CreateInsertChange(c)
    \/ CreateReread(c)

StoreNext == \E c \in Connections : StoreBegin(c) \/ Create(c) \/ StoreCommit(c)

StoreSpec == BridgeInit /\ [][StoreNext]_vars

\* the tables as rows without their commit state
RowsOf(table) == [ n \in 1..Len(table) |-> [ table[n] EXCEPT !.by = Committed ] ]

\* a create() call has just had the answer of its idempotency SELECT, and
\* the answer held a change record
SelectFindsRecord(c) ==
    /\ r_pc[c] = "select"
    /\ r_pc'[c] # "select"
    /\ ExistingFor(c, r_local[c].idempotency_key) # {}

\* C26: create() inside a transaction with an idempotency key that has a
\* change record returns the reservation recorded for that key, as it is
\* stored, and inserts or updates nothing
CreateWithKnownKeyReturnsRecorded ==
    [][ \A c \in Connections :
          SelectFindsRecord(c) =>
            /\ RowsOf(r_reservations') = RowsOf(r_reservations)
            /\ RowsOf(r_changes') = RowsOf(r_changes)
            /\ Len(r_results') = Len(r_results) + 1
            /\ LET res == r_results'[Len(r_results')]
               IN  /\ res.outcome = "returned"
                   /\ res.writes = 0
                   /\ \E n \in 1..Len(r_changes) :
                         /\ r_changes[n].idempotency_key = r_local[c].idempotency_key
                         /\ res.reservation.reservation_id = r_changes[n].reservation_id
                         /\ res.reservation.players =
                               r_reservations[r_changes[n].reservation_id].num_players
            /\ r_pc'[c] = "returned"
      ]_vars

\* a booking for two was committed under idem-1; a retry with the same key
\* asking for four got the booking for two back and wrote nothing
RetryReturnedFirstBooking ==
    /\ Len(r_results) = 2
    /\ r_results[1].idempotency_key = "idem-1" /\ r_results[1].players = 2
    /\ r_results[1].existing = {} /\ r_results[1].writes = 2
    /\ r_results[2].idempotency_key = "idem-1" /\ r_results[2].players = 4
    /\ r_results[2].existing # {} /\ r_results[2].writes = 0
    /\ r_results[2].reservation = r_results[1].reservation
    /\ r_results[2].reservation.players = 2
    /\ Len(r_reservations) = 1 /\ Len(r_changes) = 1

\* ---------------------------------------------------------------------------
\* Observability: the DbLogger of one call, the calls and provider_sessions
\* tables behind it, and the engine handlers that write through it.  The
\* start-frame handler runs in the read loop, the provider-event handler in
\* the provider event loop task, finalize_call in shutdown(); each action is
\* one stretch of a handler between two awaits on the database.
\* ---------------------------------------------------------------------------

LogTasks == { "frame", "event", "closer" }

SessionEvent(name, ext) == [ name |-> name, ext |-> ext ]

\* provider events as _map_event yields them: session.created and
\* session.updated carry the provider's session id
ProviderSessionEvents ==
    { SessionEvent("session_started", "sess-1"),
      SessionEvent("session_updated", "sess-1"),
      SessionEvent("tool_call_started", NoneVal),
      SessionEvent("tool_call_finished", NoneVal),
      SessionEvent("history_item_added", NoneVal),
      SessionEvent("audio_output", NoneVal) }

model_name == "gpt-realtime"

MetadataKeys == { "voice", "source_event" }

\* ProviderSessionInfo.metadata_json of the connected provider
InfoMetadata == [ voice |-> "alloy", source_event |-> Absent ]

\* {"source_event": event.event_name}
EventMetadata(name) == [ voice |-> Absent, source_event |-> name ]

MetadataOf(source) == IF source = NoneVal THEN InfoMetadata ELSE EventMetadata(source)

\* SQL COALESCE(a, b)
Coalesce(a, b) == IF a # NoneVal THEN a ELSE b

\* jsonb a || b: on a key both sides have, the right operand wins
JsonbConcat(a, b) == [ key \in MetadataKeys |-> IF b[key] # Absent THEN b[key] ELSE a[key] ]

\* ORDER BY started_at DESC LIMIT 1 over the rows that match; 0 when no row does
LatestRow(matches) == IF matches = {} THEN 0 ELSE CHOOSE n \in matches : \A m \in matches : m <= n

\* the SELECT of ensure_provider_session: by external session id when one is
\* given, else by (call, component, provider name), which every row of the call has
SelectProviderSession(ext) ==
    IF ext # NoneVal
    THEN LatestRow({ n \in DOMAIN o_sessions : o_sessions[n].external_session_id = ext })
    ELSE LatestRow(DOMAIN o_sessions)

\* the UPDATE of ensure_provider_session on the row found
UpdatedRow(row, ext, source) ==
    [ external_session_id |-> Coalesce(row.external_session_id, ext),
      model |-> Coalesce(row.model, model_name),
      metadata_json |-> JsonbConcat(row.metadata_json, MetadataOf(source)) ]

\* the INSERT of ensure_provider_session
InsertedRow(ext, source) ==
    [ external_session_id |-> ext, model |-> model_name, metadata_json |-> MetadataOf(source) ]

\* DbLogger.set_provider_session
set_provider_session(lg, provider_session_id, ext) ==
    [ lg EXCEPT !.provider_session_id = provider_session_id,
                !.external_session_id = IF ext # NoneVal THEN ext ELSE lg.external_session_id ]

\* an _execute without its except clause: the failure of the write leaves it
ExecuteRaises(ok) == ~ok

\* DbLogger._execute: its except clause swallows the failure of the write
ExecutePropagates(ok) == FALSE

\* a logger method is called through logger k: remembered with whether the
\* ensure_call of that logger had returned
Issued(method, k) == [ method |-> method, ensured |-> o_lg[k].call_ensured ]

Outcome(method, ok, ret, known) ==
    [ method |-> method, failed |-> ~ok, ret |-> ret, known |-> known ]

Locals(k, ext, source, event) ==
    [ logger |-> k, ext |-> ext, source |-> source, found |-> 0, event |-> event,
      session |-> 0 ]

beside_log ==
    << engine_state, handler_vars, factory_vars, bridge_vars, store_vars, closer_vars, inventory_vars >>

\* _handle_start_event up to its first await: a fresh DbLogger is assigned to
\* self._logger and ensure_call is awaited
HandleStartEvent ==
    /\ o_pc["frame"] = "idle"
    /\ o_pc["closer"] = "idle"
    /\ o_frames < MaxStarts
    /\ o_frames' = o_frames + 1
    /\ o_logger' = o_frames + 1
    /\ o_issued' = [ method |-> "ensure_call", ensured |-> FALSE ]
    /\ o_pc' = [ o_pc EXCEPT !["frame"] = "ensure_call" ]
    /\ o_local' = [ o_local EXCEPT !["frame"] = Locals(o_frames + 1, NoneVal, NoneVal, "start") ]
    /\ UNCHANGED << o_lg, o_calls, o_sessions, o_last, o_events, o_returns, o_handled, o_items, o_tools, beside_log >>

\* ensure_call returns; set_call_context; _ensure_provider_session calls
\* ensure_provider_session with the provider info's external id (None)
EnsureCallReturns ==
    /\ o_pc["frame"] = "ensure_call"
    /\ \E ok \in BOOLEAN :
        LET k == o_local["frame"].logger IN
        /\ o_calls' = (o_calls \/ ok)
        /\ o_last' = Outcome("ensure_call", ok, 0, 0)
        /\ IF ExecutePropagates(ok)
           THEN /\ o_pc' = [ o_pc EXCEPT !["frame"] = "raised" ]
                /\ UNCHANGED << o_lg, o_issued, o_local >>
           ELSE /\ o_lg' = [ o_lg EXCEPT ![k].call_ensured = TRUE ]
                /\ o_issued' = [ method |-> "ensure_provider_session", ensured |-> TRUE ]
                /\ o_local' = [ o_local EXCEPT !["frame"] = Locals(o_logger, NoneVal, NoneVal, "start") ]
                /\ o_pc' = [ o_pc EXCEPT !["frame"] = "eps_select" ]
    /\ UNCHANGED << o_logger, o_sessions, o_frames, o_events, o_returns, o_handled, o_items, o_tools, beside_log >>

\* what the handler of task t does once ensure_provider_session has returned:
\* the start-frame handler logs the start event, the provider-event handler
\* logs the session event (self._logger is set, the event is no audio_output)
AfterEnsureProviderSession(t, lgs) ==
    LET method == IF t = "frame" THEN "log_call_event" ELSE "log_session_event" IN
    /\ o_issued' = [ method |-> method, ensured |-> lgs[o_logger].call_ensured ]
    /\ o_pc' = [ o_pc EXCEPT ![t] = method ]
    /\ o_local' = [ o_local EXCEPT ![t].logger = o_logger ]

\* the except clause of ensure_provider_session
EnsureProviderSessionFails(t) ==
    LET k == o_local[t].logger
        fallback == o_lg[k].provider_session_id
        lgs == [ o_lg EXCEPT ![k] = set_provider_session(o_lg[k], fallback, o_local[t].ext) ]
    IN  /\ o_lg' = lgs
        /\ o_last' = Outcome("ensure_provider_session", FALSE, fallback,
                              o_lg[k].provider_session_id)
        /\ AfterEnsureProviderSession(t, lgs)
        /\ UNCHANGED o_sessions

\* ensure_provider_session: the SELECT
EnsureProviderSessionSelect(t) ==
    /\ o_pc[t] = "eps_select"
    /\ \E ok \in BOOLEAN :
        IF ok
        THEN /\ o_local' = [ o_local EXCEPT ![t].found = SelectProviderSession(o_local[t].ext) ]
             /\ o_pc' = [ o_pc EXCEPT ![t] = "eps_write" ]
             /\ UNCHANGED << o_lg, o_sessions, o_issued, o_last >>
        ELSE EnsureProviderSessionFails(t)
    /\ UNCHANGED << o_logger, o_calls, o_frames, o_events, o_returns, o_handled, o_items, o_tools, beside_log >>

\* ensure_provider_session: the UPDATE of the row found or the INSERT of a
\* new one, set_provider_session, and the return into the handler
EnsureProviderSessionWrite(t) ==
    /\ o_pc[t] = "eps_write"
    /\ \E ok \in BOOLEAN :
        IF ok
        THEN LET k == o_local[t].logger
                 found == o_local[t].found
                 id == IF found # 0 THEN found ELSE Len(o_sessions) + 1
                 lgs == [ o_lg EXCEPT ![k] = set_provider_session(o_lg[k], id, o_local[t].ext) ]
             IN  /\ o_sessions' =
                        IF found # 0
                        THEN [ o_sessions EXCEPT
                                 ![found] = UpdatedRow(o_sessions[found], o_local[t].ext, o_local[t].source) ]
                        ELSE Append(o_sessions, InsertedRow(o_local[t].ext, o_local[t].source))
                 /\ o_lg' = lgs
                 /\ o_last' = Outcome("ensure_provider_session", TRUE, id,
                              o_lg[k].provider_session_id)
                 /\ AfterEnsureProviderSession(t, lgs)
        ELSE EnsureProviderSessionFails(t)
    /\ UNCHANGED << o_logger, o_calls, o_frames, o_events, o_returns, o_handled, o_items, o_tools, beside_log >>

\* log_call_event returns and _handle_start_event is done
LogCallEventReturns ==
    /\ o_pc["frame"] = "log_call_event"
    /\ \E ok \in BOOLEAN :
        /\ o_last' = Outcome("log_call_event", ok, 0, 0)
        /\ IF ExecutePropagates(ok)
           THEN /\ o_pc' = [ o_pc EXCEPT !["frame"] = "raised" ]
                /\ UNCHANGED o_returns
           ELSE /\ o_pc' = [ o_pc EXCEPT !["frame"] = "idle" ]
                /\ o_returns' = o_returns + 1
    /\ UNCHANGED << o_logger, o_lg, o_calls, o_sessions, o_issued, o_local, o_frames, o_events,
                    o_handled, o_items, o_tools, beside_log >>

\* _handle_provider_event up to its first await on the logger
HandleProviderEvent(e) ==
    /\ o_pc["event"] = "idle"
    /\ o_pc["closer"] = "idle"
    /\ o_events < MaxSessionEvents
    /\ o_events' = o_events + 1
    /\ IF o_logger # 0 /\ e.ext # NoneVal
       THEN /\ o_issued' = Issued("ensure_provider_session", o_logger)
            /\ o_local' = [ o_local EXCEPT !["event"] = Locals(o_logger, e.ext, e.name, e.name) ]
            /\ o_pc' = [ o_pc EXCEPT !["event"] = "eps_select" ]
            /\ UNCHANGED o_handled
       ELSE IF o_logger # 0 /\ e.name # "audio_output"
       THEN /\ o_issued' = Issued("log_session_event", o_logger)
            /\ o_local' = [ o_local EXCEPT !["event"] = Locals(o_logger, e.ext, e.name, e.name) ]
            /\ o_pc' = [ o_pc EXCEPT !["event"] = "log_session_event" ]
            /\ UNCHANGED o_handled
       ELSE /\ o_handled' = o_handled + 1
            /\ UNCHANGED << o_issued, o_local, o_pc >>
    /\ UNCHANGED << o_logger, o_lg, o_calls, o_sessions, o_last, o_frames, o_returns, o_items, o_tools, beside_log >>

\* the child write the handler makes after log_session_event, by event name
ChildWriteOf(name) ==
    IF name \in { "tool_call_started", "tool_call_finished" } THEN "log_tool_call"
    ELSE IF name = "history_item_added" THEN "upsert_conversation_item"
    ELSE NoneVal

\* log_session_event returns; the handler goes on to the write of its event
LogSessionEventReturns ==
    /\ o_pc["event"] = "log_session_event"
    /\ \E ok \in BOOLEAN :
        LET method == ChildWriteOf(o_local["event"].event) IN
        /\ o_last' = Outcome("log_session_event", ok, 0, 0)
        /\ IF ExecutePropagates(ok)
           THEN /\ o_pc' = [ o_pc EXCEPT !["event"] = "raised" ]
                /\ UNCHANGED << o_issued, o_local, o_handled >>
           ELSE IF method # NoneVal
           THEN /\ o_issued' = Issued(method, o_logger)
                /\ o_local' = [ o_local EXCEPT
                                  !["event"].logger = o_logger,
                                  !["event"].session = o_lg[o_logger].provider_session_id ]
                /\ o_pc' = [ o_pc EXCEPT !["event"] = method ]
                /\ UNCHANGED o_handled
           ELSE /\ o_pc' = [ o_pc EXCEPT !["event"] = "idle" ]
                /\ o_handled' = o_handled + 1
                /\ UNCHANGED << o_issued, o_local >>
    /\ UNCHANGED << o_logger, o_lg, o_calls, o_sessions, o_frames, o_events, o_returns, o_items, o_tools, beside_log >>

\* the item id the history_item_added events of the call carry
external_item_id == "item-1"

\* rows of conversation_items with provider session id `session` and item id `item`
ItemRows(items, session, item) ==
    { n \in DOMAIN items :
        items[n].provider_session_id = session /\ items[n].external_item_id = item }

\* the statement of upsert_conversation_item: with a provider session id the
\* INSERT .. ON CONFLICT (call_id, provider_session_id, external_item_id)
\* DO UPDATE, without one the plain INSERT with provider_session_id NULL
UpsertItem(items, session, item, snapshot) ==
    IF session # 0 /\ ItemRows(items, session, item) # {}
    THEN [ n \in DOMAIN items |->
             IF n \in ItemRows(items, session, item)
             THEN [ items[n] EXCEPT !.content_json = snapshot ]
             ELSE items[n] ]
    ELSE Append(items, [ provider_session_id |-> session, external_item_id |-> item,
                         content_json |-> snapshot ])

\* ProviderEvent.tool_call_external_id as _map_event sets it for the n-th
\* event of the call: raw.call_id on the tool_call_started of a
\* RealtimeModelToolCallEvent, nothing (0) on the tool_call_finished of tool_end
ToolCallExternalId(name, n) == IF name = "tool_call_started" THEN n ELSE 0

\* the row log_tool_call inserts for the event: the engine hands the id of the
\* event over as it is (lines 344 and 360)
ToolCallRow(name, n) ==
    [ status |-> IF name = "tool_call_started" THEN "RUNNING" ELSE "SUCCEEDED",
      tool_call_external_id |-> ToolCallExternalId(name, n) ]

\* log_tool_call or upsert_conversation_item returns and the event is handled;
\* the n-th provider event of the call carries snapshot n of the item
ChildWriteReturns ==
    /\ o_pc["event"] \in { "log_tool_call", "upsert_conversation_item" }
    /\ \E ok \in BOOLEAN :
        /\ o_last' = Outcome(o_pc["event"], ok, 0, 0)
        /\ o_items' =
              IF ok /\ o_pc["event"] = "upsert_conversation_item"
              THEN UpsertItem(o_items, o_local["event"].session, external_item_id, o_events)
              ELSE o_items
        /\ o_tools' =
              IF ok /\ o_pc["event"] = "log_tool_call"
              THEN Append(o_tools, ToolCallRow(o_local["event"].event, o_events))
              ELSE o_tools
        /\ IF ExecutePropagates(ok)
           THEN /\ o_pc' = [ o_pc EXCEPT !["event"] = "raised" ]
                /\ UNCHANGED o_handled
           ELSE /\ o_pc' = [ o_pc EXCEPT !["event"] = "idle" ]
                /\ o_handled' = o_handled + 1
    /\ UNCHANGED << o_logger, o_lg, o_calls, o_sessions, o_issued, o_local, o_frames, o_events,
                    o_returns, beside_log >>

\* shutdown(), the loops being stopped: finalize_call through self._logger
FinalizeCallStarts ==
    /\ o_pc["closer"] = "idle"
    /\ o_pc["frame"] \in { "idle", "raised" }
    /\ o_pc["event"] \in { "idle", "raised" }
    /\ o_logger # 0
    /\ o_issued' = Issued("finalize_call", o_logger)
    /\ o_local' = [ o_local EXCEPT !["closer"] = Locals(o_logger, NoneVal, NoneVal, "stop") ]
    /\ o_pc' = [ o_pc EXCEPT !["closer"] = "finalize_call" ]
    /\ UNCHANGED << o_logger, o_lg, o_calls, o_sessions, o_last, o_frames, o_events, o_returns,
                    o_handled, o_items, o_tools, beside_log >>

\* finalize_call: the UPDATE of calls, then, when a provider session is known,
\* the UPDATE of provider_sessions
FinalizeCallExecutes ==
    /\ o_pc["closer"] \in { "finalize_call", "finalize_provider_session" }
    /\ \E ok \in BOOLEAN :
        /\ o_last' = Outcome("finalize_call", ok, 0, 0)
        /\ o_pc' = [ o_pc EXCEPT !["closer"] =
                       IF ExecutePropagates(ok) THEN "raised"
                       ELSE IF o_pc["closer"] = "finalize_call"
                               /\ o_lg[o_local["closer"].logger].provider_session_id # 0
                       THEN "finalize_provider_session"
                       ELSE "closed" ]
    /\ UNCHANGED << o_logger, o_lg, o_calls, o_sessions, o_issued, o_local, o_frames, o_events,
                    o_returns, o_handled, o_items, o_tools, beside_log >>

EnsureProviderSession == \E t \in { "frame", "event" } :
    EnsureProviderSessionSelect(t) \/ EnsureProviderSessionWrite(t)

StartFrameWrites == HandleStartEvent \/ EnsureCallReturns \/ LogCallEventReturns

ProviderEventWrites ==
    \/ \E e \in ProviderSessionEvents : HandleProviderEvent(e)
    \/ LogSessionEventReturns
    \/ ChildWriteReturns

FinalizeCall == FinalizeCallStarts \/ FinalizeCallExecutes

LogNext == StartFrameWrites \/ ProviderEventWrites \/ EnsureProviderSession \/ FinalizeCall

LogSpec == BridgeInit /\ [][LogNext]_vars

\* C24: no logger method raises into the call-handling path when its
\* database operation fails: whichever statements fail, no handler is ever
\* left by an exception of the logger (each goes on at the position it reaches
\* after a successful write), and a failed ensure_provider_session returns
\* the session id the logger already knew.
LoggerFailuresSwallowed ==
    /\ \A t \in LogTasks : o_pc[t] # "raised"
    /\ (o_last.method = "ensure_provider_session" /\ o_last.failed) => o_last.ret = o_last.known

\* ensure_call failed and the start frame was still handled to the end; then
\* ensure_provider_session failed on a session event, returned the id known
\* from the start frame, and the handler went on to log the event
HandlersWentOnAfterFailures ==
    /\ ~o_calls
    /\ o_returns = 1
    /\ o_last.method = "ensure_provider_session"
    /\ o_last.failed
    /\ o_last.ret = 1
    /\ o_pc["event"] = "log_session_event"

ChildWrites ==
    { "log_session_event", "log_tool_call", "upsert_conversation_item",
      "ensure_provider_session", "log_call_event" }

\* C28: the parent call record is ensured before any child row is written:
\* under every interleaving of the start-frame handler with the provider
\* event loop, a child write is issued through the call's logger only after
\* the ensure_call of that logger has returned.
ChildWritesAfterEnsureCall == o_issued.method \in ChildWrites => o_issued.ensured

KeepsNonNull(before, after) ==
    /\ before.external_session_id # NoneVal
          => after.external_session_id = before.external_session_id
    /\ before.model # NoneVal => after.model = before.model
    /\ \A key \in MetadataKeys :
          before.metadata_json[key] # Absent
             => after.metadata_json[key] = before.metadata_json[key]

\* C30: when ensure_provider_session finds an existing provider-session
\* record, every field of it that is already non-null (external session id,
\* model, each metadata key) keeps its previous value: no step changes a
\* non-null field of a stored record.
FoundRecordKeepsNonNullFields ==
    [][ \A n \in DOMAIN o_sessions : KeepsNonNull(o_sessions[n], o_sessions'[n]) ]_vars

(***************************************************************************)
(* Warm-up ends once.                                                      *)
(***************************************************************************)
\* C34: warm-up ends at most once per call: once warm-up is over it is
\* never re-enabled, the warm-up buffer is empty and stays empty, and every
\* later flush hands its window to send_audio as it is.
WarmupEndsOnce ==
    /\ [][ startup_audio_warmed =>
              /\ startup_audio_warmed'
              /\ startup_audio_buffer' = << >>
              /\ TakesWindow =>
                    sent_audio' = Append(sent_audio, flushed_windows'[Len(flushed_windows')])
         ]_vars
    /\ [](startup_audio_warmed => startup_audio_buffer = << >>)

\* the first chunk came out of the warm-up buffer after three windows, and
\* the fourth window was sent as it was
WindowSentAfterWarmup ==
    /\ startup_buffer_chunks = TWILIO_STARTUP_BUFFER_CHUNKS
    /\ startup_audio_warmed
    /\ Len(flushed_windows) = 4
    /\ Len(sent_audio) = 2
    /\ sent_audio[1] = FirstWindows(3)
    /\ sent_audio[2] = flushed_windows[4]
    /\ startup_audio_buffer = << >>

(***************************************************************************)
(* Inbound bytes are buffered or sent.                                     *)
(***************************************************************************)
\* no send_audio call is in progress, and none failed or was cancelled
NoSendAudioPendingOrLost ==
    /\ read_pc # "send_audio"
    /\ task_pc[FlushLoopTask] \notin { "send_audio", "log_failure", "failed" }
    /\ \A i \in DOMAIN returns : returns[i].ret # "raise"

\* C36: whenever no send_audio call is in progress and none has failed or
\* been cancelled, the decoded inbound bytes counted equal the bytes
\* counted as sent to the provider plus the bytes in the caller buffer plus
\* the bytes in the warm-up buffer.
InboundBytesAccounted ==
    NoSendAudioPendingOrLost =>
        twilio_inbound_audio_bytes =
            agent_input_audio_bytes + ByteLen(caller_audio_buffer)
                + ByteLen(startup_audio_buffer)

\* 1360 bytes came in: the warm-up chunk of 1200 was sent and counted, and
\* 160 wait in the caller buffer
WarmupChunkCountedRestBuffered ==
    /\ NoSendAudioPendingOrLost
    /\ startup_buffer_chunks = TWILIO_STARTUP_BUFFER_CHUNKS
    /\ twilio_inbound_audio_bytes = 1360
    /\ agent_input_audio_bytes = 1200
    /\ agent_input_audio_chunks = 1
    /\ ByteLen(caller_audio_buffer) = 160
    /\ startup_audio_buffer = << >>

(***************************************************************************)
(* The mark table holds minted ids only.                                   *)
(***************************************************************************)
\* str(1) .. str(mark_counter)
MintedIds == { str(n) : n \in 1..mark_counter }

\* C37: in every reachable state the keys of the playback-mark table are
\* among the mark ids minted so far, and on_output_played was invoked at
\* most once for each minted id and for no other id.
MarkTableWithinMinted ==
    /\ DOMAIN twilio_mark_playback_map \subseteq MintedIds
    /\ \A i \in DOMAIN played : played[i].mark_id \in MintedIds
    /\ \A i, j \in DOMAIN played : played[i].mark_id = played[j].mark_id => i = j

\* two ids were minted; the echo of the first was played and left the
\* second in the table, and an echo of the first that came again was not
\* played
SecondMarkLeftAfterFirstPlayed ==
    /\ mark_counter = 2
    /\ DOMAIN twilio_mark_playback_map = { str(2) }
    /\ Len(played) = 1 /\ played[1].mark_id = str(1)
    /\ Len(returns) = 3
    /\ returns[2].frame.name = str(1) /\ returns[3].frame.name = str(1)

(***************************************************************************)
(* Observability before the outward effect of a provider event.            *)
(***************************************************************************)
\* one call seen from its provider events while it is in progress: no
\* shutdown cuts in
EventNext == Start \/ PlaybackReadLoop \/ ProviderEventLoop

EventSpec == PlaybackInit /\ [][EventNext]_vars

\* C33: for every provider event the log_session_event call made for it has
\* returned before the clear, media or mark frame of the event is passed to
\* the outbound callback (a frame of an event that is logged is emitted only
\* by the step that resumes from log_session_event), and an audio_output
\* event is never passed to log_session_event.
ObservabilityBeforeEmission ==
    /\ [][ Len(outbound') > Len(outbound) =>
              LET e == task_local'[EventLoopTask].event IN
              (logger /\ e.event_name # "audio_output") =>
                  task_pc[EventLoopTask] = "log_session_event"
       ]_vars
    /\ [](task_pc[EventLoopTask] = "log_session_event" =>
              task_local[EventLoopTask].event.event_name # "audio_output")

\* an audio_output event went out as media and mark frame without being
\* logged; the interruption that followed is at log_session_event, its clear
\* frame due and not yet emitted
ClearWaitsForSessionEventLog ==
    /\ logger
    /\ stream_sid # NoneVal
    /\ emit_twilio_message # NoneVal
    /\ Len(events_taken) = 2
    /\ events_taken[1].event.event_name = "audio_output"
    /\ events_taken[2].event.event_name = "audio_interrupted"
    /\ task_pc[EventLoopTask] = "log_session_event"
    /\ Len(outbound) = 2
    /\ outbound[1].event = "media" /\ outbound[2].event = "mark"

(***************************************************************************)
(* OpenAIRealtimeProvider.close, called by an owner of the provider any    *)
(* number of times, one call after the other, before or after start().     *)
(***************************************************************************)
\* a close() that leaves the fields as they are
FieldKept(v) == v

\* lines 124-126: `self._session = None`, `self._backend_client = None`
ClosedField(v) == NoneVal

\* `with contextlib.suppress(Exception)` (lines 119, 122): the exception of a
\* resource's close() does not leave the block
CloseRaises(ok) == FALSE

\* the state a close() call finds the provider in
ProviderState ==
    IF provider_calls.start = 0 THEN "never_started"
    ELSE IF p_session # NoneVal THEN "started"
    ELSE IF p_backend_client # NoneVal THEN "partial"
    ELSE "closed"

beside_closer ==
    << engine_vars, audio_in_vars, audio_out_vars, api_key_set, handler_vars,
       factory_vars, bridge_vars, store_vars, log_vars, inventory_vars,
       task_vars, caller_vars, reader_vars, events_taken, call_events >>

\* lines 124-126
CloseResetsFields ==
    /\ p_session' = ClosedField(p_session)
    /\ p_backend_client' = ClosedField(p_backend_client)
    /\ c_pc' = "idle"

\* line 121 on: the client is closed when there is one
CloseBackendClient ==
    IF p_backend_client # NoneVal
    THEN /\ provider_calls' = [ provider_calls EXCEPT !.client_close = @ + 1 ]
         /\ c_pc' = "client_close"
         /\ UNCHANGED << p_session, p_backend_client >>
    ELSE /\ CloseResetsFields
         /\ UNCHANGED provider_calls

\* close() is called while no start() and no other close() is under way:
\* lines 118-120 up to the first suspension
CloseEnter ==
    /\ c_pc = "idle"
    /\ \A c \in StartCallers : start_pc[c] \notin { "runner_run", "session_enter" }
    /\ provider_calls.close < MaxCloses
    /\ c_entered' = Append(c_entered, ProviderState)
    /\ IF p_session # NoneVal
       THEN /\ provider_calls' = [ provider_calls EXCEPT !.close = @ + 1,
                                                          !.session_close = @ + 1 ]
            /\ c_pc' = "session_close"
            /\ UNCHANGED << p_session, p_backend_client >>
       ELSE IF p_backend_client # NoneVal
       THEN /\ provider_calls' = [ provider_calls EXCEPT !.close = @ + 1,
                                                          !.client_close = @ + 1 ]
            /\ c_pc' = "client_close"
            /\ UNCHANGED << p_session, p_backend_client >>
       ELSE /\ provider_calls' = [ provider_calls EXCEPT !.close = @ + 1 ]
            /\ CloseResetsFields
    /\ UNCHANGED beside_closer

\* `await self._session.close()` returns or raises
CloseSessionReturns ==
    /\ c_pc = "session_close"
    /\ \E ok \in BOOLEAN :
          IF CloseRaises(ok)
          THEN /\ c_pc' = "raised"
               /\ UNCHANGED << p_session, p_backend_client, provider_calls >>
          ELSE CloseBackendClient
    /\ UNCHANGED << c_entered, beside_closer >>

\* `await self._backend_client.close()` returns or raises
CloseClientReturns ==
    /\ c_pc = "client_close"
    /\ \E ok \in BOOLEAN :
          IF CloseRaises(ok)
          THEN /\ c_pc' = "raised"
               /\ UNCHANGED << p_session, p_backend_client >>
          ELSE CloseResetsFields
    /\ UNCHANGED << provider_calls, c_entered, beside_closer >>

Close == CloseEnter \/ CloseSessionReturns \/ CloseClientReturns

\* the owner starts the provider once, between two close() calls
CloserNext == (c_pc = "idle" /\ Start) \/ Close

CloserSpec == Init /\ [][CloserNext]_vars

\* C35: close() can be called in every state of the provider (never
\* started, start failed with only the tool-bridge client created, fully
\* started, already closed) and never raises, and over any sequence of
\* close() calls the session and the tool-bridge HTTP client are each closed
\* at most once.
CloseInAnyStateClosesOnce ==
    /\ c_pc # "raised"
    /\ provider_calls.session_close <= provider_calls.session_open
    /\ provider_calls.client_close <= provider_calls.client_open
    /\ provider_calls.session_close <= 1
    /\ provider_calls.client_close <= 1

\* close() was called before start(), again after runner.run() had failed
\* and left the client alone, and a third time: the client was closed once,
\* by the second call
ClosedAfterPartialStart ==
    /\ c_entered = << "never_started", "partial", "closed" >>
    /\ c_pc = "idle"
    /\ provider_calls.close = 3
    /\ provider_calls.client_open = 1
    /\ provider_calls.client_close = 1
    /\ provider_calls.session_close = 0
    /\ p_backend_client = NoneVal

(***************************************************************************)
(* The engine after shutdown() has completed.                              *)
(***************************************************************************)
\* some caller's shutdown() ran through line 155
ShutdownCompleted == \E c \in ShutdownCallers : shutdown_pc[c] = "completed"

\* C38: after shutdown() has completed the engine produces no further
\* effect: a frame handed to handle_twilio_message is answered False, and no
\* step changes the buffers, the mark table or the counters, calls
\* send_audio or on_output_played, or passes a frame to the outbound
\* callback, frame handling and provider events that were in progress when
\* shutdown began included.
NoEffectAfterShutdown ==
    [][ ShutdownCompleted =>
          /\ UNCHANGED << caller_audio_buffer, startup_audio_buffer,
                          startup_audio_warmed, twilio_inbound_audio_frames,
                          twilio_inbound_audio_bytes, agent_input_audio_chunks,
                          agent_input_audio_bytes, mark_counter,
                          twilio_mark_playback_map, agent_output_audio_chunks,
                          agent_output_audio_bytes >>
          /\ UNCHANGED << sent_audio, played, outbound >>
          /\ (read_pc = "idle" /\ Len(returns') > Len(returns))
                => returns'[Len(returns')].ret = "false"
      ]_vars

(***************************************************************************)
(* Conversation items.                                                     *)
(***************************************************************************)
\* C31: handling history_item_added any number of times for the same item
\* id leaves exactly one conversation-item record for that id, holding the
\* latest snapshot, whether or not a provider-session id is known and even
\* if it changes between the repetitions: after every upsert that wrote, the
\* table holds one row of the item and the row holds the snapshot written.
OneItemRecordLatestSnapshot ==
    [][ o_items' # o_items =>
          /\ Cardinality({ n \in DOMAIN o_items' :
                             o_items'[n].external_item_id = external_item_id }) = 1
          /\ \A n \in DOMAIN o_items' : o_items'[n].content_json = o_events
      ]_vars

(***************************************************************************)
(* Tool calls.  Every tool call of the run has the same tool name and the  *)
(* same raw arguments.                                                     *)
(***************************************************************************)
\* the external ids of the started records before row n that no finished
\* record before row n carries
UnmatchedStarted(n) ==
    { o_tools[m].tool_call_external_id : m \in { k \in 1..(n - 1) : o_tools[k].status = "RUNNING" } }
        \ { o_tools[m].tool_call_external_id : m \in { k \in 1..(n - 1) : o_tools[k].status # "RUNNING" } }

\* C32: a tool_call_finished event that carries no external tool-call id is
\* recorded with the external id of the earliest still-unmatched
\* tool_call_started of the same (tool name, raw arguments) pair, and each
\* started id is matched by at most one finished record.
FinishedMatchedFifo ==
    /\ \A n \in DOMAIN o_tools :
          (o_tools[n].status # "RUNNING" /\ UnmatchedStarted(n) # {})
             => /\ o_tools[n].tool_call_external_id \in UnmatchedStarted(n)
                /\ \A id \in UnmatchedStarted(n) : o_tools[n].tool_call_external_id <= id
    /\ \A n, m \in DOMAIN o_tools :
          (/\ o_tools[n].status # "RUNNING" /\ o_tools[m].status # "RUNNING"
           /\ o_tools[n].tool_call_external_id # 0
           /\ o_tools[n].tool_call_external_id = o_tools[m].tool_call_external_id)
             => n = m

(***************************************************************************)
(* The backend's book-tee-time and modify-reservation routes.  Each request *)
(* runs in a transaction of its own (READ COMMITTED): SELECT .. FOR UPDATE  *)
(* waits for the row lock and then reads the committed row, the lock is    *)
(* held until the transaction ends, and the writes of a transaction are    *)
(* seen by others when it commits.  The slots of the run are open, and the *)
(* contact of every booking has a phone number.                            *)
(***************************************************************************)
beside_inventory ==
    << engine_state, handler_vars, factory_vars, bridge_vars, store_vars, log_vars,
       closer_vars >>

\* SQL GREATEST(a, b)
Greatest(a, b) == IF a >= b THEN a ELSE b

\* the slot row as transaction c reads it: its own write, else the committed row
SlotRead(c, s) == IF s_tx[c].written[s] # -1 THEN s_tx[c].written[s] ELSE s_booked[s]

\* routes/tools.py line 169, for an open slot
slot_has_capacity(booked, players) == booked + players <= capacity_players

\* the WHERE clause of increment_players_booked, for an open slot
IncrementApplies(booked, players) == booked + players <= capacity_players

\* a time change that moves the party whatever the target slot holds
TargetNeverLacksCapacity(booked, players) == FALSE

\* reservations.py line 407
TargetLacksCapacity(booked, players) == booked + players > capacity_players

\* reservations.py lines 478-483, for an open slot
DeltaLacksCapacity(booked, delta) == delta > 0 /\ booked + delta > capacity_players

\* the reservation the committed change with idempotency key `key` belongs
\* to; 0 when no committed change has the key
FirstWithKey(key) ==
    LET rows == { n \in DOMAIN s_res : s_res[n].key = key }
    IN  IF rows = {} THEN 0 ELSE CHOOSE n \in rows : \A m \in rows : n <= m

\* the row locks of transaction c are released
LocksReleased(c) == [ s \in Slots |-> IF s_lock[s] = c THEN 0 ELSE s_lock[s] ]

\* the transaction block is left by an exception: ROLLBACK
Rollback(c) ==
    /\ s_lock' = LocksReleased(c)
    /\ s_pc' = [ s_pc EXCEPT ![c] = "idle" ]
    /\ s_tx' = [ s_tx EXCEPT ![c] = NoTx ]
    /\ UNCHANGED << s_booked, s_res >>

\* the outcome of the book-tee-time request of transaction c
BookOutcome(c, status, after) ==
    [ key |-> s_tx[c].key, applied |-> s_tx[c].applied, status |-> status,
      reservation |-> s_tx[c].reservation, first |-> s_tx[c].first,
      before |-> s_tx[c].before, after |-> after ]

\* POST /book-tee-time arrives: a transaction is opened
BookBegin(c, slot, players, key) ==
    /\ s_pc[c] = "idle"
    /\ s_done < MaxRequests
    /\ s_done' = s_done + 1
    /\ s_tx' = [ s_tx EXCEPT ![c] =
                   [ NoTx EXCEPT !.kind = "book", !.slot_id = slot, !.players = players,
                                 !.key = key, !.applied = FirstWithKey(key) # 0,
                                 !.first = FirstWithKey(key) ] ]
    /\ s_pc' = [ s_pc EXCEPT ![c] = "book_lock" ]
    /\ UNCHANGED << s_booked, s_lock, s_res, s_last, beside_inventory >>

\* get_slot_for_update returns with the row locked; slot_has_capacity
BookLock(c) ==
    /\ s_pc[c] = "book_lock"
    /\ s_lock[s_tx[c].slot_id] \in { 0, c }
    /\ IF slot_has_capacity(SlotRead(c, s_tx[c].slot_id), s_tx[c].players)
       THEN /\ s_lock' = [ s_lock EXCEPT ![s_tx[c].slot_id] = c ]
            /\ s_tx' = [ s_tx EXCEPT ![c].before = SlotRead(c, s_tx[c].slot_id) ]
            /\ s_pc' = [ s_pc EXCEPT ![c] = "book_increment" ]
            /\ UNCHANGED << s_booked, s_res, s_last >>
       ELSE /\ Rollback(c)
            /\ s_last' = BookOutcome(c, "raised", s_booked[s_tx[c].slot_id])
    /\ UNCHANGED << s_done, beside_inventory >>

\* increment_players_booked: the UPDATE with its capacity predicate
BookIncrement(c) ==
    /\ s_pc[c] = "book_increment"
    /\ LET slot == s_tx[c].slot_id IN
       IF IncrementApplies(SlotRead(c, slot), s_tx[c].players)
       THEN /\ s_tx' = [ s_tx EXCEPT ![c].written[slot] = SlotRead(c, slot) + s_tx[c].players ]
            /\ s_pc' = [ s_pc EXCEPT ![c] = "book_create" ]
            /\ UNCHANGED << s_booked, s_lock, s_res, s_last >>
       ELSE /\ Rollback(c)
            /\ s_last' = BookOutcome(c, "raised", s_booked[slot])
    /\ UNCHANGED << s_done, beside_inventory >>

\* reservation_store.create: the reservation of the change that has the
\* idempotency key, else a new reservation and its change
BookCreate(c) ==
    /\ s_pc[c] = "book_create"
    /\ s_tx' = [ s_tx EXCEPT
                   ![c].reservation = FirstWithKey(s_tx[c].key),
                   ![c].inserted = FirstWithKey(s_tx[c].key) = 0 ]
    /\ s_pc' = [ s_pc EXCEPT ![c] = "book_commit" ]
    /\ UNCHANGED << s_booked, s_lock, s_res, s_last, s_done, beside_inventory >>

\* the slot rows with the writes of transaction c applied
SlotsCommitted(c) == [ s \in Slots |-> SlotRead(c, s) ]

\* the transaction block of book_tee_time is left normally: COMMIT
BookCommit(c) ==
    /\ s_pc[c] = "book_commit"
    /\ s_booked' = SlotsCommitted(c)
    /\ s_res' = IF s_tx[c].inserted
                THEN Append(s_res, [ slot_id |-> s_tx[c].slot_id, players |-> s_tx[c].players,
                                     key |-> s_tx[c].key ])
                ELSE s_res
    /\ s_last' = [ BookOutcome(c, "returned", SlotRead(c, s_tx[c].slot_id)) EXCEPT
                     !.reservation = IF s_tx[c].inserted THEN Len(s_res) + 1
                                     ELSE s_tx[c].reservation ]
    /\ s_lock' = LocksReleased(c)
    /\ s_pc' = [ s_pc EXCEPT ![c] = "idle" ]
    /\ s_tx' = [ s_tx EXCEPT ![c] = NoTx ]
    /\ UNCHANGED << s_done, beside_inventory >>

\* POST /modify-reservation arrives for reservation r, without idempotency
\* key: find_by_confirmation reads the committed reservation
ModifyBegin(c, r, target, new_players) ==
    /\ s_pc[c] = "idle"
    /\ s_done < MaxRequests
    /\ target # 0 \/ new_players # 0
    /\ s_done' = s_done + 1
    /\ s_tx' = [ s_tx EXCEPT ![c] =
                   [ NoTx EXCEPT !.kind = "modify", !.reservation = r,
                                 !.slot_id = s_res[r].slot_id, !.players = s_res[r].players,
                                 !.target = target, !.new_players = new_players ] ]
    /\ s_pc' = [ s_pc EXCEPT ![c] = "modify_lock_current" ]
    /\ UNCHANGED << s_booked, s_lock, s_res, s_last, beside_inventory >>

\* where modify goes on after the time change
AfterTimeChange(c) ==
    IF s_tx[c].new_players # 0 /\ s_tx[c].new_players # s_tx[c].players
    THEN "modify_lock_active"
    ELSE "modify_commit"

\* lines 373-385: the current slot is locked
ModifyLockCurrent(c) ==
    /\ s_pc[c] = "modify_lock_current"
    /\ s_lock[s_tx[c].slot_id] \in { 0, c }
    /\ s_lock' = [ s_lock EXCEPT ![s_tx[c].slot_id] = c ]
    /\ s_pc' = [ s_pc EXCEPT ![c] =
                   IF s_tx[c].target # 0 THEN "modify_lock_target" ELSE AfterTimeChange(c) ]
    /\ UNCHANGED << s_booked, s_res, s_tx, s_last, s_done, beside_inventory >>

\* lines 388-463: the target slot is locked and tested, the party is taken
\* off the current slot and put on the target
ModifyLockTarget(c) ==
    /\ s_pc[c] = "modify_lock_target"
    /\ s_lock[s_tx[c].target] \in { 0, c }
    /\ LET current == s_tx[c].slot_id
           target == s_tx[c].target
           players == s_tx[c].players
           removed == [ s_tx[c].written EXCEPT
                          ![current] = Greatest(SlotRead(c, current) - players, 0) ]
           base == IF target = current THEN removed[target] ELSE SlotRead(c, target)
       IN  IF TargetLacksCapacity(SlotRead(c, target), players)
           THEN Rollback(c)
           ELSE /\ s_lock' = [ s_lock EXCEPT ![target] = c ]
                /\ s_tx' = [ s_tx EXCEPT
                               ![c].written = [ removed EXCEPT ![target] = base + players ],
                               ![c].slot_id = target ]
                /\ s_pc' = [ s_pc EXCEPT ![c] = AfterTimeChange(c) ]
                /\ UNCHANGED << s_booked, s_res >>
    /\ UNCHANGED << s_last, s_done, beside_inventory >>

\* lines 466-519: the active slot is locked again and the difference of the
\* party sizes is applied to it
ModifyLockActive(c) ==
    /\ s_pc[c] = "modify_lock_active"
    /\ LET active == s_tx[c].slot_id
           delta == s_tx[c].new_players - s_tx[c].players
       IN  IF DeltaLacksCapacity(SlotRead(c, active), delta)
           THEN Rollback(c)
           ELSE /\ s_tx' = [ s_tx EXCEPT
                               ![c].written[active] = SlotRead(c, active) + delta,
                               ![c].players = s_tx[c].new_players ]
                /\ s_pc' = [ s_pc EXCEPT ![c] = "modify_commit" ]
                /\ UNCHANGED << s_booked, s_lock, s_res >>
    /\ UNCHANGED << s_last, s_done, beside_inventory >>

\* the transaction block of modify_reservation is left normally: COMMIT
ModifyCommit(c) ==
    /\ s_pc[c] = "modify_commit"
    /\ s_booked' = SlotsCommitted(c)
    /\ s_res' = [ s_res EXCEPT ![s_tx[c].reservation].slot_id = s_tx[c].slot_id,
                               ![s_tx[c].reservation].players = s_tx[c].players ]
    /\ s_lock' = LocksReleased(c)
    /\ s_pc' = [ s_pc EXCEPT ![c] = "idle" ]
    /\ s_tx' = [ s_tx EXCEPT ![c] = NoTx ]
    /\ UNCHANGED << s_last, s_done, beside_inventory >>

\* a statement of the transaction fails, or the transaction is the victim of
\* a deadlock: the exception leaves the transaction block
StatementFails(c) ==
    /\ s_pc[c] # "idle"
    /\ Rollback(c)
    /\ UNCHANGED << s_last, s_done, beside_inventory >>

BookTeeTime ==
    \E c \in Txs :
        \/ \E slot \in Slots, players \in PlayerCounts, key \in IdempotencyKeys :
              BookBegin(c, slot, players, key)
        \/ BookLock(c)
        \/ BookIncrement(c)
        \/ BookCreate(c)
        \/ BookCommit(c)

ModifyReservation ==
    \E c \in Txs :
        \/ \E r \in DOMAIN s_res, target \in Slots \cup { 0 }, new_players \in PlayerCounts \cup { 0 } :
              ModifyBegin(c, r, target, new_players)
        \/ ModifyLockCurrent(c)
        \/ ModifyLockTarget(c)
        \/ ModifyLockActive(c)
        \/ ModifyCommit(c)

InventoryNext == BookTeeTime \/ ModifyReservation \/ (\E c \in Txs : StatementFails(c))

InventorySpec == BridgeInit /\ [][InventoryNext]_vars

\* C39: for every tee-time slot, under every interleaving of concurrent
\* book-tee-time and modify-reservation transactions, players_booked never
\* exceeds capacity_players, in the committed row and in the row as any
\* transaction has written it.
PlayersBookedWithinCapacity ==
    /\ \A s \in Slots : s_booked[s] <= capacity_players
    /\ \A c \in Txs, s \in Slots : SlotRead(c, s) <= capacity_players

\* a modify-reservation has moved a party of four from slot 1 onto slot 2 and
\* filled it, not yet committed, while a book-tee-time for slot 2 waits for
\* the row lock
BookingWaitsForFullSlot ==
    /\ s_tx[2].kind = "modify"
    /\ s_lock[2] = 2
    /\ s_tx[2].written[2] = capacity_players
    /\ s_tx[2].written[1] = 0
    /\ s_tx[1].kind = "book"
    /\ s_tx[1].slot_id = 2
    /\ s_pc[1] = "book_lock"

\* C40: a book-tee-time request repeated with an idempotency key that was
\* already applied returns the reservation the first request created and
\* leaves the players_booked of the slot as it found it.
RepeatedBookingChangesNothing ==
    (s_last.applied /\ s_last.status = "returned")
        => /\ s_last.reservation = s_last.first
           /\ s_last.after = s_last.before

====
